---- MODULE Spec2Model ----
(***************************************************************************)
(* Model of the document conversion engine of PolicyUpdater                *)
(* (src/ctxt_generator.py): the HTML -> block extractor                    *)
(* (build_blocks_from_html), the block -> chunk packer (chunk_blocks) and  *)
(* the per-directory driver (process_files).                               *)
(*                                                                         *)
(* A Python str is a sequence of one-character strings, so that length,    *)
(* slicing, whitespace and line breaks are what they are in the code.      *)
(* A breadcrumb path is a sequence of such strings, a block is a record    *)
(* [path, text].  Python's None for current_breadcrumb is the empty        *)
(* sequence <<>> and a set path p is <<p>>.                                *)
(***************************************************************************)
EXTENDS Integers, Sequences, FiniteSets, TLC

(***************************************************************************)
(* Characters and elementary string operations (Python built-ins).         *)
(***************************************************************************)
SP == " "
NL == "\n"
ELLIPSIS == "..."   \* stands for the single character U+2026 appended by shorten_label
BACKTICK == "[backtick]"   \* stands for the single character U+0060

IsWs(c) == c \in {" ", "\n", "\t", "\r"}

Rep(c, n) == [i \in 1..n |-> c]

Min(a, b) == IF a <= b THEN a ELSE b
Max(a, b) == IF a >= b THEN a ELSE b

\* s[i:j] of Python with 0 <= i, j (0-based, j exclusive), clipped to len(s)
Slice(s, i, j) == SubSeq(s, i + 1, Min(j, Len(s)))

StartsWith(s, p) == Len(p) <= Len(s) /\ SubSeq(s, 1, Len(p)) = p

\* the members of a finite set of integers in increasing order
Sorted(S) ==
  [k \in 1..Cardinality(S) |-> CHOOSE x \in S : Cardinality({y \in S : y < x}) = k - 1]

NonWsAt(s) == {i \in 1..Len(s) : ~IsWs(s[i])}

SetMin(S) == CHOOSE x \in S : \A y \in S : x <= y
SetMax(S) == CHOOSE x \in S : \A y \in S : x >= y

LStrip(s) == IF NonWsAt(s) = {} THEN <<>> ELSE SubSeq(s, SetMin(NonWsAt(s)), Len(s))

RStrip(s) == IF NonWsAt(s) = {} THEN <<>> ELSE SubSeq(s, 1, SetMax(NonWsAt(s)))

Strip(s) == RStrip(LStrip(s))

\* sep.join(parts)
RECURSIVE Join(_, _)
Join(parts, sep) ==
  IF parts = <<>> THEN <<>>
  ELSE IF Len(parts) = 1 THEN parts[1]
  ELSE parts[1] \o sep \o Join(Tail(parts), sep)

\* s.split(c) for a one-character separator c
Split(s, c) ==
  LET cuts == Sorted({i \in 1..Len(s) : s[i] = c}) \o <<Len(s) + 1>>
  IN [k \in 1..Len(cuts) |->
        SubSeq(s, (IF k = 1 THEN 0 ELSE cuts[k - 1]) + 1, cuts[k] - 1)]

Contains(s, c) == \E i \in 1..Len(s) : s[i] = c

\* "\nA:" in text
HasNLA(text) ==
  \E i \in 1..(Len(text) - 2) :
    text[i] = NL /\ text[i + 1] = "A" /\ text[i + 2] = ":"

\* s.split(): the maximal runs of non-whitespace characters, in order
Words(s) ==
  LET starts == Sorted({i \in NonWsAt(s) : i = 1 \/ IsWs(s[i - 1])})
      ends == Sorted({i \in NonWsAt(s) : i = Len(s) \/ IsWs(s[i + 1])})
  IN [k \in 1..Len(starts) |-> SubSeq(s, starts[k], ends[k])]

\* mutant of norm_ws: the ends are stripped, runs of whitespace are kept
norm_ws_strip_only(s) == Strip(s)

\* re.sub(r"\s+", " ", s).strip()
norm_ws(s) == Join(Words(s), <<SP>>)


(***************************************************************************)
(* shorten_label, src/ctxt_generator.py:60-68.                             *)
(***************************************************************************)
IsCutPunct(c) == c \in {",", ";", ":", "-"}

Reverse(s) == [i \in 1..Len(s) |-> s[Len(s) + 1 - i]]

\* re.search(r"[,;:\u2013\u2014\-]\s", r).start(), 0-based; -1 when no match
FirstPunctWs(r) ==
  LET hits == {i \in 1..(Len(r) - 1) : IsCutPunct(r[i]) /\ IsWs(r[i + 1])}
  IN IF hits = {} THEN -1
     ELSE (CHOOSE i \in hits : \A j \in hits : i <= j) - 1

shorten_label(s0, lim) ==
  LET s == norm_ws(s0)
      m == FirstPunctWs(Reverse(Slice(s, 0, lim)))
  IN IF Len(s) <= lim THEN s
     ELSE IF m >= 0 THEN Append(norm_ws(Slice(s, 0, lim - m)), ELLIPSIS)
     ELSE Append(RStrip(Slice(s, 0, lim)), ELLIPSIS)

(***************************************************************************)
(* textwrap.wrap(text, width) of the Python standard library with its      *)
(* default options, as called at src/ctxt_generator.py:276 and :290:       *)
(* whitespace characters become spaces, the text is split into maximal     *)
(* runs of whitespace and of non-whitespace, lines are filled greedily,    *)
(* whitespace at a line break is dropped and a run longer than the width   *)
(* is cut (break_long_words).  The inputs of the model have no hyphen      *)
(* inside a word, so break_on_hyphens never applies.                       *)
(***************************************************************************)
\* TextWrapper._munge_whitespace and _split: the maximal runs of spaces and
\* of other characters, in order
Runs(s0) ==
  LET s == [i \in 1..Len(s0) |-> IF IsWs(s0[i]) THEN SP ELSE s0[i]]
      starts == Sorted({i \in 1..Len(s) : i = 1 \/ (IsWs(s[i]) # IsWs(s[i - 1]))})
  IN [k \in 1..Len(starts) |->
        SubSeq(s, starts[k], IF k = Len(starts) THEN Len(s) ELSE starts[k + 1] - 1)]

RECURSIVE FillCount(_, _, _)
FillCount(ch, curlen, width) ==
  IF ch # <<>> /\ curlen + Len(Head(ch)) <= width
  THEN 1 + FillCount(Tail(ch), curlen + Len(Head(ch)), width)
  ELSE 0

RECURSIVE SumLen(_)
SumLen(parts) == IF parts = <<>> THEN 0 ELSE Len(Head(parts)) + SumLen(Tail(parts))

\* TextWrapper._wrap_chunks; started is "lines is non-empty"
RECURSIVE wrap_chunks(_, _, _)
wrap_chunks(chs, width, started) ==
  IF chs = <<>> THEN <<>>
  ELSE
    LET ch0 == IF started /\ IsWs(chs[1][1]) THEN Tail(chs) ELSE chs
        k == FillCount(ch0, 0, width)
        taken == SubSeq(ch0, 1, k)
        rest == SubSeq(ch0, k + 1, Len(ch0))
        curlen == SumLen(taken)
        long == rest # <<>> /\ Len(rest[1]) > width
        space_left == IF width < 1 THEN 1 ELSE width - curlen
        line1 == IF long THEN Append(taken, Slice(rest[1], 0, space_left)) ELSE taken
        rest1 == IF long
                 THEN <<Slice(rest[1], space_left, Len(rest[1]))>> \o Tail(rest)
                 ELSE rest
        line2 == IF line1 # <<>> /\ Strip(line1[Len(line1)]) = <<>>
                 THEN SubSeq(line1, 1, Len(line1) - 1)
                 ELSE line1
    IN IF line2 # <<>>
       THEN <<Join(line2, <<>>)>> \o wrap_chunks(rest1, width, TRUE)
       ELSE wrap_chunks(rest1, width, started)

textwrap_wrap(text, width) == wrap_chunks(Runs(text), width, FALSE)


(***************************************************************************)
(* norm_multiline, src/ctxt_generator.py:21-37.                            *)
(***************************************************************************)
\* str.replace("\r\n", "\n").replace("\r", "\n")
UnifyNewlines(s) ==
  LET keep == {i \in 1..Len(s) : ~(s[i] = "\r" /\ i < Len(s) /\ s[i + 1] = NL)}
      ks == Sorted(keep)
  IN [k \in 1..Len(ks) |-> IF s[ks[k]] = "\r" THEN NL ELSE s[ks[k]]]

\* lines 27-36: a blank line is kept only when the line before it is not blank
RECURSIVE CollapseBlanks(_, _)
CollapseBlanks(lns, prev_blank) ==
  IF lns = <<>> THEN <<>>
  ELSE IF Head(lns) = <<>>
       THEN (IF prev_blank THEN <<>> ELSE << <<>> >>) \o CollapseBlanks(Tail(lns), TRUE)
       ELSE <<Head(lns)>> \o CollapseBlanks(Tail(lns), FALSE)

\* mutant of norm_multiline: blank lines are not collapsed
norm_multiline_keeping_blanks(s) ==
  LET raw == Split(UnifyNewlines(s), NL)
      lns == [i \in 1..Len(raw) |-> norm_ws(raw[i])]
  IN Strip(Join(lns, <<NL>>))

\* lines 21-37
norm_multiline(s) ==
  LET raw == Split(UnifyNewlines(s), NL)
      lns == [i \in 1..Len(raw) |-> norm_ws(raw[i])]
  IN Strip(Join(CollapseBlanks(lns, FALSE), <<NL>>))

(***************************************************************************)
(* Q/A detection, src/ctxt_generator.py:71-78.                             *)
(***************************************************************************)
\* the length of the match of ^\s*[<letters>]\s*[:.\-]\s+ at the start of t,
\* 0 when there is none
MarkerLen(t, letters) ==
  LET a == Len(t) - Len(LStrip(t))
      t1 == SubSeq(t, a + 2, Len(t))
      b == Len(t1) - Len(LStrip(t1))
      t2 == SubSeq(t1, b + 2, Len(t1))
      c == Len(t2) - Len(LStrip(t2))
  IN IF /\ a + 1 <= Len(t) /\ t[a + 1] \in letters
        /\ b + 1 <= Len(t1) /\ t1[b + 1] \in {":", ".", "-"}
        /\ c >= 1
     THEN a + 1 + b + 1 + c
     ELSE 0

is_question_text(t) == MarkerLen(t, {"Q", "q"}) > 0

is_answer_text(t) == MarkerLen(t, {"A", "a"}) > 0

strip_q_or_a_prefix(t) ==
  Strip(SubSeq(t, MarkerLen(t, {"Q", "q", "A", "a"}) + 1, Len(t)))

(***************************************************************************)
(* The parsed document.  BeautifulSoup's tree is a sequence of nodes; a    *)
(* node's index is its identity (id(node) in the code) and the indexes of  *)
(* a parsed document follow document order.  A node is                     *)
(*   [tag, kids, text, href]                                               *)
(* with tag "#text" for a NavigableString (text is its string), kids the   *)
(* indexes of its children in order, href the href attribute of an "a".    *)
(* Node 1 is the BeautifulSoup object itself.  A node that no kids list    *)
(* holds has been taken out of the tree (Tag.extract).                     *)
(***************************************************************************)
TextTag == "#text"
DocTag == "[document]"

Node(tag, kids, text, href) == [tag |-> tag, kids |-> kids, text |-> text, href |-> href]

Txt(s) == Node(TextTag, <<>>, s, <<>>)

El(tag, kids) == Node(tag, kids, <<>>, <<>>)

InSeq(x, sq) == \E i \in 1..Len(sq) : sq[i] = x

\* node.parent, 0 for None
Parent(d, n) ==
  LET ps == {m \in 1..Len(d) : InSeq(n, d[m].kids)}
  IN IF ps = {} THEN 0 ELSE CHOOSE m \in ps : TRUE

\* node.next_sibling, 0 for None; None too once the node is out of the tree
next_sibling(d, n) ==
  LET m == Parent(d, n)
  IN IF m = 0 THEN 0
     ELSE LET ks == d[m].kids
              i == CHOOSE j \in 1..Len(ks) : ks[j] = n
          IN IF i < Len(ks) THEN ks[i + 1] ELSE 0

RECURSIVE Flatten(_)
Flatten(seqs) == IF seqs = <<>> THEN <<>> ELSE Head(seqs) \o Flatten(Tail(seqs))

\* the descendants of n in document order
RECURSIVE Descendants(_, _)
Descendants(d, n) ==
  Flatten([i \in 1..Len(d[n].kids) |->
             <<d[n].kids[i]>> \o Descendants(d, d[n].kids[i])])

\* el.find_all(tags): the descendants with one of the tags
find_all(d, n, tags) == SelectSeq(Descendants(d, n), LAMBDA m : d[m].tag \in tags)

\* el.find_all(tags, recursive=False): the children with one of the tags
find_children(d, n, tags) == SelectSeq(d[n].kids, LAMBDA m : d[m].tag \in tags)

\* el.get_text(" "): every string below el, joined by a space
get_text(d, n) ==
  LET ts == find_all(d, n, {TextTag})
  IN Join([i \in 1..Len(ts) |-> d[ts[i]].text], <<SP>>)

\* a.get_text(" ", strip=True): the stripped non-empty strings below a
get_text_stripped(d, n) ==
  LET ts == SelectSeq(find_all(d, n, {TextTag}), LAMBDA m : Strip(d[m].text) # <<>>)
  IN Join([i \in 1..Len(ts) |-> Strip(d[ts[i]].text)], <<SP>>)

\* line 57: the string that replaces a hyperlink
link_text(d, a) == get_text_stripped(d, a) \o <<SP, "(">> \o d[a].href \o <<")">>

\* mutant of replace_links: the rewritten text is put inside the hyperlink,
\* which stays in the tree
RECURSIVE replace_links_inside(_, _)
replace_links_inside(d, as) ==
  IF as = <<>> THEN d
  ELSE replace_links_inside([d EXCEPT ![Head(as)].kids = <<Len(d) + 1>>]
                              \o <<Txt(link_text(d, Head(as)))>>, Tail(as))

\* lines 56-57: every hyperlink below el becomes a string in its place (an
\* "a" node of the model always carries an href)
RECURSIVE replace_links(_, _)
replace_links(d, as) ==
  IF as = <<>> THEN d
  ELSE replace_links([d EXCEPT ![Head(as)] = Txt(link_text(d, Head(as)))], Tail(as))

\* extract_plain_text, lines 55-58: the tree after the call and the text
extract_plain_text(d, el) ==
  LET d1 == replace_links(d, find_all(d, el, {"a"}))
  IN [dom |-> d1, text |-> norm_ws(get_text(d1, el))]

\* lines 84-87 and 121-124: the text of a copy of li without its nested lists
RECURSIVE remove_lists(_, _)
remove_lists(d, ls) ==
  IF ls = <<>> THEN d
  ELSE LET m == Parent(d, Head(ls))
       IN remove_lists(
            IF m = 0 THEN d
            ELSE [d EXCEPT ![m].kids = SelectSeq(@, LAMBDA k : k # Head(ls))],
            Tail(ls))

item_text(d, li) ==
  extract_plain_text(remove_lists(d, find_all(d, li, {"ul", "ol"})), li).text

\* is_bold_heading_p, lines 39-53
is_bold_heading_p(d, p) ==
  /\ p # 0
  /\ d[p].tag = "p"
  /\ find_children(d, p, {"strong"}) # <<>>
  /\ \A i \in 1..Len(d[p].kids) :
       LET c == d[d[p].kids[i]]
       IN IF c.tag = TextTag THEN norm_ws(c.text) = <<>>
          ELSE c.tag \in {"strong", "br"}

\* re.sub(r"\s*:\s*$", "", heading_text)
strip_trailing_colon(t) ==
  LET r == RStrip(t)
  IN IF r # <<>> /\ r[Len(r)] = ":" THEN RStrip(SubSeq(r, 1, Len(r) - 1)) ELSE t

\* list_to_lines, lines 80-94
RECURSIVE walk_list(_, _, _)
walk_list(d, ul, indent) ==
  LET lis == find_children(d, ul, {"li"})
  IN Flatten([i \in 1..Len(lis) |->
       LET txt == item_text(d, lis[i])
           subs == find_children(d, lis[i], {"ul", "ol"})
       IN (IF txt # <<>> THEN <<Rep(SP, 2 * indent) \o <<"-", SP>> \o txt>> ELSE <<>>)
          \o Flatten([j \in 1..Len(subs) |-> walk_list(d, subs[j], indent + 1)])])

list_to_lines(d, root_list) == walk_list(d, root_list, 0)

(***************************************************************************)
(* State.                                                                  *)
(*   blocks, limit        the arguments of chunk_blocks                    *)
(*   chunks, current_lines, current_breadcrumb, current_len                *)
(*                        the locals of chunk_blocks (lines 231-234)       *)
(*   bi                   the position of its loop "for path, text in      *)
(*                        blocks" (the index of the next block)            *)
(*   pc                   the control point of the program                 *)
(*   files, fi            the HTML files of EXPORT_DIR in the order of     *)
(*                        glob, and the position of the loop over them     *)
(*   url_line, written    the local url_line of process_files and the      *)
(*                        CTXT files written so far                        *)
(*   RUN_TAG              the module constant read at import (line 15)     *)
(*   dom                  the BeautifulSoup tree of the document           *)
(*   top, stack           the top-level nodes still to visit (line 190)    *)
(*                        and the stack of the traversal (line 191)        *)
(*   breadcrumb, skipped_ids   the locals of build_blocks_from_html        *)
(*   environ_RUN_TAG      os.environ["RUN_TAG"] of the process, <<>> when  *)
(*                        it is not set                                    *)
(*   preset_RUN_TAG       history: its value when the process started      *)
(*   skip_generate, main_RUN_TAG                                           *)
(*                        the locals SKIP_GENERATE and RUN_TAG of          *)
(*                        Main.main                                        *)
(*   called, arg, arg_limit, result                                        *)
(*                        a helper called on its own: which one, its       *)
(*                        arguments and what it returned                   *)
(* History variables, read by the properties only:                         *)
(*   chunk_path[k]        current_breadcrumb when chunk k was appended     *)
(*   emitted              one record per current_lines.append(seg) of      *)
(*                        add_line: the block it serves, the index of the  *)
(*                        chunk it lands in, the segment appended, and     *)
(*                        whether line 292 put the bullet prefix before it *)
(*   block_src[i]         the node block i was made from and how: "p"      *)
(*                        (plain paragraph), "qa" (question) or "li"       *)
(***************************************************************************)
VARIABLES blocks, limit, chunks, current_lines, current_breadcrumb,
          current_len, bi, pc, chunk_path, emitted,
          files, fi, url_line, written, RUN_TAG,
          dom, top, stack, breadcrumb, skipped_ids, block_src,
          called, arg, arg_limit, result,
          environ_RUN_TAG, preset_RUN_TAG, skip_generate, main_RUN_TAG,
          expected_count, deadline, now, listed, tagged, ready_labels,
          pending_labels, gap_markers, returned, polls,
          children, existing, DRY_RUN, try_n, run_folder,
          unwraps,
          SKIP_WAIT, SKIP_VERIFY, SKIP_EMAIL, uploaded_count, calls

chunk_vars == <<chunks, current_lines, current_breadcrumb, current_len, bi,
                chunk_path, emitted>>

build_vars == <<dom, top, stack, breadcrumb, skipped_ids, block_src>>

file_vars == <<files, fi, url_line, written, RUN_TAG>>

call_vars == <<called, arg, arg_limit, result>>

\* the state outside the conversion of documents
main_vars == <<environ_RUN_TAG, preset_RUN_TAG, skip_generate, main_RUN_TAG>>

\* wait_for_ingestion_by_tag, src/cognigy/ingestion_verify.py:73-127: its
\* locals, the clock (now), what list_sources yielded in the poll (listed),
\* the returned pair (returned) and the number of polls made (polls)
wait_vars == <<expected_count, deadline, now, listed, tagged, ready_labels,
               pending_labels, gap_markers, returned, polls>>

\* _create_run_folder, src/sharepoint_uploader.py:236-269: the folders under
\* the parent item (children), those that were there when it was called
\* (existing), the loop counter n and the returned RunFolder
folder_vars == <<children, existing, DRY_RUN, try_n, run_folder>>

\* the installed BeautifulSoup: whether inserting a BeautifulSoup object
\* into a tree inserts its contents (Tag.insert of the later releases) or
\* the object itself (the earlier ones)
lib_vars == <<unwraps>>

\* steps 6 to 9 of Main.main and the guard around it, src/Main.py:125-198:
\* the skip flags, the number of uploaded files and the calls made so far to
\* verify_against_local, notify_success and notify_failure (calls)
run_vars == <<SKIP_WAIT, SKIP_VERIFY, SKIP_EMAIL, uploaded_count, calls>>

ext_vars == <<wait_vars, folder_vars, lib_vars, run_vars>>

side_vars == <<call_vars, main_vars, ext_vars>>

vars == <<blocks, limit, pc, chunk_vars, build_vars, file_vars, side_vars>>

\* no helper is being called on its own
CallIdle == called = "none" /\ arg = <<>> /\ arg_limit = 0 /\ result = <<>>

\* Main.main is not running
MainIdle ==
  /\ environ_RUN_TAG = <<>> /\ preset_RUN_TAG = <<>>
  /\ skip_generate = FALSE /\ main_RUN_TAG = <<>>

\* wait_for_ingestion_by_tag is not running
WaitIdle ==
  /\ expected_count = 0 /\ deadline = 0 /\ now = 0 /\ listed = <<>>
  /\ tagged = <<>> /\ ready_labels = <<>> /\ pending_labels = <<>>
  /\ gap_markers = <<>> /\ returned = <<>> /\ polls = 0

\* _create_run_folder is not running
FolderIdle ==
  /\ children = {} /\ existing = {} /\ DRY_RUN = FALSE /\ try_n = 0
  /\ run_folder = <<>>

\* no document is parsed
LibIdle == unwraps = FALSE

\* the end of Main.main is not running
RunIdle ==
  /\ SKIP_WAIT = FALSE /\ SKIP_VERIFY = FALSE /\ SKIP_EMAIL = FALSE
  /\ uploaded_count = 0 /\ calls = <<>>

ExtIdle == WaitIdle /\ FolderIdle /\ LibIdle /\ RunIdle

SideIdle == CallIdle /\ MainIdle /\ ExtIdle

(***************************************************************************)
(* chunk_blocks, src/ctxt_generator.py:230-299.  The nested functions act  *)
(* on the locals of chunk_blocks; here they map a record of those locals   *)
(* to the record after the call.                                           *)
(***************************************************************************)
LabelLimit == 80
WrapFloor == 40
WrapMargin == 20

Locals ==
  [chunks |-> chunks, lines |-> current_lines, bc |-> current_breadcrumb,
   len |-> current_len, chunk_path |-> chunk_path, emitted |-> emitted, ret |-> 0]

breadcrumb_header(path) ==
  IF path = <<>> THEN <<>>
  ELSE Join([i \in 1..Len(path) |-> shorten_label(path[i], LabelLimit)],
            <<SP, ">", SP>>)

HeaderLine(hdr) == <<"#", "#", "#", SP>> \o hdr

\* lines 239-250; .ret is the value returned
start_new_chunk(st, path) ==
  LET hdr == breadcrumb_header(path)
      closed == IF st.lines # <<>>
                THEN [st EXCEPT !.chunks = Append(@, Strip(Join(st.lines, <<NL>>))),
                                !.chunk_path = Append(@, st.bc[1])]
                ELSE st
  IN IF hdr # <<>>
     THEN [closed EXCEPT !.lines = <<HeaderLine(hdr)>>, !.bc = <<path>>,
                         !.ret = Len(HeaderLine(hdr)) + 1]
     ELSE [closed EXCEPT !.lines = <<>>, !.bc = <<path>>, !.ret = 0]

\* mutant of add_line: after a chunk break the counter restarts at 0, the
\* header line of the new chunk is not counted
add_line_forgetting_header(st, seg, path, blk, pre) ==
  LET s1 == IF st.len + Len(seg) + 1 > limit
            THEN LET n == start_new_chunk(st, path) IN [n EXCEPT !.len = 0]
            ELSE st
  IN [s1 EXCEPT !.lines = Append(@, seg),
                !.len = @ + Len(seg) + 1,
                !.emitted = Append(@, [blk |-> blk, chunk |-> Len(s1.chunks) + 1,
                                       line |-> seg, pre |-> pre,
                                       len |-> s1.len + Len(seg) + 1])]

\* lines 252-259; blk and pre only feed the history variable, whose records
\* also keep the value of current_len after the line was added (len)
add_line(st, seg, path, blk, pre) ==
  LET s1 == IF st.len + Len(seg) + 1 > limit
            THEN LET n == start_new_chunk(st, path)
                 IN [n EXCEPT !.len = IF n.lines # <<>> THEN Len(n.lines[1]) + 1 ELSE 0]
            ELSE st
  IN [s1 EXCEPT !.lines = Append(@, seg),
                !.len = @ + Len(seg) + 1,
                !.emitted = Append(@, [blk |-> blk, chunk |-> Len(s1.chunks) + 1,
                                       line |-> seg, pre |-> pre,
                                       len |-> s1.len + Len(seg) + 1])]

\* re.match(r"^(\s*-\s+)", line).group(1), or "" when there is no match
BulletPrefix(line) ==
  LET a == Len(line) - Len(LStrip(line))
      after == SubSeq(line, a + 2, Len(line))
      b == Len(after) - Len(LStrip(after))
  IN IF a + 1 <= Len(line) /\ line[a + 1] = "-" /\ b >= 1
     THEN SubSeq(line, 1, a + 1 + b)
     ELSE <<>>

WrapWidth == Max(WrapFloor, limit - WrapMargin)

\* textwrap.wrap(ln, width=max(40, limit - 20)) or [ln]
Wrapped(ln) ==
  LET w == textwrap_wrap(ln, WrapWidth) IN IF w = <<>> THEN <<ln>> ELSE w

\* lines 291-293 (and 277-278 with an empty prefix): add every segment
RECURSIVE add_segments(_, _, _, _, _)
add_segments(st, segs, prefix, path, blk) ==
  IF segs = <<>> THEN st
  ELSE LET w == Head(segs)
           pre == prefix # <<>> /\ ~StartsWith(w, prefix)
           seg == IF pre THEN prefix \o w ELSE w
       IN add_segments(add_line(st, seg, path, blk, pre), Tail(segs), prefix, path, blk)

\* lines 271-280: the lines of a multi-line text, one by one
RECURSIVE add_text_lines(_, _, _, _)
add_text_lines(st, lns, path, blk) ==
  IF lns = <<>> THEN st
  ELSE LET ln == RStrip(Head(lns))
           s1 == IF Len(ln) + st.len > limit
                 THEN add_segments(st, Wrapped(ln), <<>>, path, blk)
                 ELSE add_line(st, ln, path, blk, FALSE)
       IN add_text_lines(s1, Tail(lns), path, blk)

is_qa_block(text) == StartsWith(LStrip(text), <<"Q", ":">>) /\ HasNLA(text)

\* mutant of enter_path: only the first block opens a chunk, a change of
\* path does not
enter_path_first_block_only(st, path) ==
  IF st.bc = <<>>
  THEN LET n == start_new_chunk(st, path) IN [n EXCEPT !.len = n.ret]
  ELSE st

\* lines 262-263: a block under another path closes the chunk in progress
enter_path(st, path) ==
  IF st.bc # <<path>>
  THEN LET n == start_new_chunk(st, path) IN [n EXCEPT !.len = n.ret]
  ELSE st

\* mutant of qa_break: no chunk break before a Q/A block
qa_break_never(st, path, text) == st

\* lines 265-267: a Q/A block that does not fit is moved to a fresh chunk
qa_break(st, path, text) ==
  IF is_qa_block(text) /\ st.len + Len(text) + 1 > limit
  THEN LET n == start_new_chunk(st, path) IN [n EXCEPT !.len = n.ret]
  ELSE st

\* mutant of add_single_line: a line that does not fit is truncated to its
\* first wrapped segment
add_single_line_truncating(st, line, path, blk) ==
  IF Len(line) + st.len > limit
  THEN add_segments(st, <<Head(Wrapped(line))>>, BulletPrefix(line), path, blk)
  ELSE add_line(st, line, path, blk, FALSE)

\* mutant of add_single_line: the wrapped segments are added as textwrap
\* gives them, without the bullet prefix
add_single_line_unprefixed(st, line, path, blk) ==
  IF Len(line) + st.len > limit
  THEN add_segments(st, Wrapped(line), <<>>, path, blk)
  ELSE add_line(st, line, path, blk, FALSE)

\* lines 284-295: single-line content
add_single_line(st, line, path, blk) ==
  IF Len(line) + st.len > limit
  THEN add_segments(st, Wrapped(line), BulletPrefix(line), path, blk)
  ELSE add_line(st, line, path, blk, FALSE)

\* lines 262-295: one iteration of the loop over the blocks
block_step(st, path, text, blk) ==
  LET s2 == qa_break(enter_path(st, path), path, text)
  IN IF Contains(text, NL)
     THEN add_text_lines(s2, Split(text, NL), path, blk)
     ELSE add_single_line(s2, text, path, blk)

SetLocals(r) ==
  /\ chunks' = r.chunks
  /\ current_lines' = r.lines
  /\ current_breadcrumb' = r.bc
  /\ current_len' = r.len
  /\ chunk_path' = r.chunk_path
  /\ emitted' = r.emitted


(***************************************************************************)
(* Bounded inputs of chunk_blocks: block sequences of at most MaxBlocks    *)
(* blocks drawn from BlockMenu, and the limits of Limits.  With the limit  *)
(* 64 the wrap width is limit - 20 = 44, with 45 it is the floor 40.       *)
(***************************************************************************)
MaxBlocks == 2

Limits == {45, 64}

Wd(c) == Rep(c, 5)

\* the five-letter words of cs joined by single spaces
Sent(cs) == Join([i \in 1..Len(cs) |-> Wd(cs[i])], <<SP>>)

T_short == <<"a", "a", "a", SP, "b", "b">>
T_long == Sent(<<"a", "b", "c", "d", "e", "f", "g", "h", "i">>)
T_token == Rep("x", 70)
T_bullet_short == <<"-", SP, "a", "a", "a">>
T_bullet_long == <<"-", SP>> \o T_long
T_bullet_dash ==
  <<"-", SP>> \o Sent(<<"a", "b", "c", "d", "e">>) \o <<SP>> \o Rep("f", 9)
    \o <<SP, "-", SP>> \o Sent(<<"g", "h">>)
T_qa_short == <<"Q", ":", SP, "a", "a", NL, "A", ":", SP, "b", "b">>
T_qa_mid ==
  <<"Q", ":", SP>> \o Sent(<<"a", "b", "c">>) \o <<NL, "A", ":", SP>>
    \o Sent(<<"d", "e", "f", "g">>)
T_qa_long ==
  <<"Q", ":", SP>> \o Sent(<<"a", "b", "c">>) \o <<NL, "A", ":", SP>> \o T_long
    \o <<NL, "-", SP>> \o Sent(<<"j", "k">>)
T_lines == <<"a", "a", "a", NL, NL, "b", "b", "b">>

L_leave == <<"L", "e", "a", "v", "e">>
L_item == <<"I", "t", "e", "m">>
L_heading == <<"H", "e", "a", "d", "i", "n", "g", SP>> \o Sent(<<"o", "f">>) \o <<SP, "x", "y">>
L_wide == Rep("h", 85)

P_none == <<>>
P_leave == <<L_leave>>
P_heading == <<L_heading>>
P_empty_label == << <<>> >>
P_wide == <<L_wide>>
P_nested == <<L_leave, L_item>>

Blk(path, text) == [path |-> path, text |-> text]

BlockMenu ==
  { Blk(P_none, T_short), Blk(P_leave, T_short), Blk(P_leave, T_long),
    Blk(P_heading, T_long), Blk(P_none, T_token), Blk(P_none, T_bullet_long),
    Blk(P_leave, T_bullet_dash), Blk(P_leave, T_qa_short), Blk(P_leave, T_qa_mid),
    Blk(P_heading, T_qa_mid), Blk(P_none, T_qa_long), Blk(P_empty_label, T_short),
    Blk(P_wide, T_short), Blk(P_nested, T_bullet_short), Blk(P_none, T_lines) }

BlockSeqs == UNION {[1..n -> BlockMenu] : n \in 0..MaxBlocks}

(***************************************************************************)
(* The packer as a state machine: one action per iteration of the loop of  *)
(* chunk_blocks (by the shape of the block's text) and one for the final   *)
(* flush.                                                                  *)
(***************************************************************************)
\* lines 231-234: the locals at the call of chunk_blocks
EnterChunkBlocks ==
  /\ chunks' = <<>>
  /\ current_lines' = <<>>
  /\ current_breadcrumb' = <<>>
  /\ current_len' = 0
  /\ bi' = 1
  /\ chunk_path' = <<>>
  /\ emitted' = <<>>

InitChunk ==
  /\ blocks \in BlockSeqs
  /\ limit \in Limits
  /\ chunks = <<>>
  /\ current_lines = <<>>
  /\ current_breadcrumb = <<>>
  /\ current_len = 0
  /\ bi = 1
  /\ chunk_path = <<>>
  /\ emitted = <<>>
  /\ pc = "chunk"
  /\ files = <<>> /\ fi = 0 /\ url_line = <<>> /\ written = <<>> /\ RUN_TAG = <<>>
  /\ dom = <<>> /\ top = <<>> /\ stack = <<>> /\ breadcrumb = <<>>
  /\ skipped_ids = {} /\ block_src = <<>>
  /\ SideIdle

\* lines 270-281
ChunkMultiLineBlock ==
  /\ pc = "chunk"
  /\ bi <= Len(blocks)
  /\ Contains(blocks[bi].text, NL)
  /\ SetLocals(block_step(Locals, blocks[bi].path, blocks[bi].text, bi))
  /\ bi' = bi + 1
  /\ UNCHANGED <<blocks, limit, pc, build_vars, file_vars, side_vars>>

\* lines 284-295
ChunkSingleLineBlock ==
  /\ pc = "chunk"
  /\ bi <= Len(blocks)
  /\ ~Contains(blocks[bi].text, NL)
  /\ SetLocals(block_step(Locals, blocks[bi].path, blocks[bi].text, bi))
  /\ bi' = bi + 1
  /\ UNCHANGED <<blocks, limit, pc, build_vars, file_vars, side_vars>>

\* lines 297-299
ChunkFlush ==
  /\ pc = "chunk"
  /\ bi > Len(blocks)
  /\ IF current_lines # <<>>
     THEN /\ chunks' = Append(chunks, Strip(Join(current_lines, <<NL>>)))
          /\ chunk_path' = Append(chunk_path, current_breadcrumb[1])
     ELSE UNCHANGED <<chunks, chunk_path>>
  /\ pc' = "chunked"
  /\ UNCHANGED <<blocks, limit, current_lines, current_breadcrumb, current_len,
                 bi, emitted, build_vars, file_vars, side_vars>>

NextChunk == ChunkMultiLineBlock \/ ChunkSingleLineBlock \/ ChunkFlush

SpecChunk == InitChunk /\ [][NextChunk]_vars


(***************************************************************************)
(* Properties of chunk_blocks (checked under SpecChunk).                   *)
(***************************************************************************)
NotWs(c) == ~IsWs(c)

\* the characters of s other than whitespace, in order
Ink(s) == SelectSeq(s, NotWs)

\* the length start_new_chunk(path) returns: what the header costs a chunk
FreshLen(path) ==
  IF breadcrumb_header(path) # <<>>
  THEN Len(HeaderLine(breadcrumb_header(path))) + 1
  ELSE 0

HasHeader(k) == breadcrumb_header(chunk_path[k]) # <<>>

\* chunk k without its header line
Body(k) ==
  LET lns == Split(chunks[k], NL)
  IN Join(IF HasHeader(k) THEN Tail(lns) ELSE lns, <<NL>>)

FirstLine(k) == Split(chunks[k], NL)[1]

EmittedOf(i) == SelectSeq(emitted, LAMBDA e : e.blk = i)

ChunksOf(i) == {emitted[n].chunk : n \in {m \in 1..Len(emitted) : emitted[m].blk = i}}

\* the segment of record e as textwrap produced it (the bullet prefix that
\* line 292 put before it removed)
Unprefixed(e) ==
  IF e.pre
  THEN SubSeq(e.line, Len(BulletPrefix(blocks[e.blk].text)) + 1, Len(e.line))
  ELSE e.line

\* C1: every chunk has a serialized length <= limit, unless it contains
\* exactly one token whose own length exceeds limit.
C1_ChunkSizeBound ==
  \A k \in 1..Len(chunks) :
    \/ Len(chunks[k]) <= limit
    \/ LET ws == Words(chunks[k])
       IN Cardinality({i \in 1..Len(ws) : Len(ws[i]) > limit}) = 1

\* C2 as stated: the non-header lines of the returned chunks, read in
\* emission order, are the blocks' text in block order: no character other
\* than whitespace is missing, repeated, added or out of place.
C2_NothingLostOrAdded ==
  pc = "chunked" =>
    Ink(Join([k \in 1..Len(chunks) |-> Body(k)], <<NL>>))
      = Ink(Join([i \in 1..Len(blocks) |-> blocks[i].text], <<NL>>))

\* C2 as amended: the non-header lines of the returned chunks are the
\* segments add_line appended, block after block in block order, and the
\* segments of each block spell the block's text once the copy of the
\* bullet marker put before a continuation segment of a wrapped list item
\* is taken away.
C2_NothingLostButBullets ==
  pc = "chunked" =>
    /\ Ink(Join([k \in 1..Len(chunks) |-> Body(k)], <<NL>>))
         = Ink(Join([n \in 1..Len(emitted) |-> emitted[n].line], <<NL>>))
    /\ \A n \in 1..(Len(emitted) - 1) : emitted[n].blk <= emitted[n + 1].blk
    /\ \A i \in 1..Len(blocks) :
         LET es == EmittedOf(i)
         IN Ink(Join([n \in 1..Len(es) |-> Unprefixed(es[n])], <<NL>>))
              = Ink(blocks[i].text)

\* C2 witness: a list item was wrapped over two chunks and a continuation
\* segment got the bullet marker.
C2_Witness ==
  /\ pc = "chunked"
  /\ Len(chunks) >= 2
  /\ \E n \in 1..Len(emitted) : emitted[n].pre

\* C3 as stated: a Q/A block whose full text the limit can hold has all its
\* lines in one chunk.
C3_QAAtomicWhenTextFits ==
  pc = "chunked" =>
    \A i \in 1..Len(blocks) :
      (is_qa_block(blocks[i].text) /\ Len(blocks[i].text) <= limit)
        => Cardinality(ChunksOf(i)) = 1

\* C3 as amended: a Q/A block that a fresh chunk under its path can hold
\* (header line, text and one separator per line within the limit) has all
\* its lines in one chunk, whatever precedes it.
C3_QAAtomicWhenFreshChunkFits ==
  pc = "chunked" =>
    \A i \in 1..Len(blocks) :
      (is_qa_block(blocks[i].text)
         /\ FreshLen(blocks[i].path) + Len(blocks[i].text) + 1 <= limit)
        => Cardinality(ChunksOf(i)) = 1

\* C3 witness: a Q/A block that fits a fresh chunk follows a block of the
\* same path and was moved to a chunk of its own.
C3_Witness ==
  /\ pc = "chunked"
  /\ \E i \in 2..Len(blocks) :
       /\ is_qa_block(blocks[i].text)
       /\ FreshLen(blocks[i].path) + Len(blocks[i].text) + 1 <= limit
       /\ blocks[i - 1].path = blocks[i].path
       /\ ChunksOf(i) \cap ChunksOf(i - 1) = {}

\* every line of chunk k comes from a block whose path is the chunk's path
OnePathPerChunk(k) ==
  \A n \in 1..Len(emitted) :
    emitted[n].chunk = k => blocks[emitted[n].blk].path = chunk_path[k]

\* C4 as stated: the lines of a chunk come from blocks of one path, and the
\* labels of its header line joined by " > " are that path.
C4_HeaderEqualsPath ==
  \A k \in 1..Len(chunks) :
    /\ OnePathPerChunk(k)
    /\ HasHeader(k) => FirstLine(k) = HeaderLine(Join(chunk_path[k], <<SP, ">", SP>>))

\* C4 as amended: the lines of a chunk come from blocks of one path, and
\* its header line is "### " followed by the labels of that path, each
\* shortened by shorten_label(., 80), joined by " > " (without trailing
\* whitespace when the chunk ends with it).
C4_HeaderEqualsShortenedPath ==
  \A k \in 1..Len(chunks) :
    /\ OnePathPerChunk(k)
    /\ HasHeader(k) =>
         LET h == HeaderLine(Join([j \in 1..Len(chunk_path[k]) |->
                                     shorten_label(chunk_path[k][j], LabelLimit)],
                                  <<SP, ">", SP>>))
         IN FirstLine(k) \in {h, RStrip(h)}

\* C4 witness: two chunks of different paths, one under a label longer than
\* 80 characters.
C4_Witness ==
  /\ pc = "chunked"
  /\ \E k, m \in 1..Len(chunks) :
       /\ chunk_path[k] # chunk_path[m]
       /\ HasHeader(k)
       /\ \E j \in 1..Len(chunk_path[k]) : Len(chunk_path[k][j]) > LabelLimit


(***************************************************************************)
(* build_blocks_from_html, src/ctxt_generator.py:97-227.  The nested       *)
(* functions and the loop body act on the tree and on the locals of the    *)
(* call; here they map a record of those to the record after the step.     *)
(***************************************************************************)
Ext ==
  [dom |-> dom, top |-> top, stack |-> stack, breadcrumb |-> breadcrumb,
   skipped_ids |-> skipped_ids, blocks |-> blocks, block_src |-> block_src]

\* Tag.extract(): the node leaves its parent's children
extract(d, n) ==
  LET m == Parent(d, n)
  IN IF m = 0 THEN d ELSE [d EXCEPT ![m].kids = SelectSeq(@, LAMBDA k : k # n)]

\* lines 102-106: the rows of a table, each its cell texts joined by " | "
table_lines(d, t) ==
  LET trs == find_all(d, t, {"tr"})
      cells(tr) == LET cs == find_all(d, tr, {"th", "td"})
                   IN [i \in 1..Len(cs) |-> norm_ws(get_text(d, cs[i]))]
      rows == SelectSeq(trs, LAMBDA tr : cells(tr) # <<>>)
  IN [i \in 1..Len(rows) |-> Join(cells(rows[i]), <<SP, "|", SP>>)]

\* the children html.parser gives <p> for "<br/>".join(lines): a string per
\* non-empty line, a br between two lines
RECURSIVE br_joined(_)
br_joined(lns) ==
  IF lns = <<>> THEN <<>>
  ELSE (IF Head(lns) # <<>> THEN <<Txt(Head(lns))>> ELSE <<>>)
       \o (IF Len(lns) > 1 THEN <<El("br", <<>>)>> ELSE <<>>)
       \o br_joined(Tail(lns))

\* line 107, table.replace_with(BeautifulSoup("<p>...</p>")): the node t
\* becomes the p itself when the library inserts the contents of the
\* BeautifulSoup object, and the BeautifulSoup object that holds the p when
\* it inserts the object; kids are the children of the p
replaced_table(d, t, kids) ==
  IF unwraps
  THEN [d EXCEPT ![t] = El("p", [i \in 1..Len(kids) |-> Len(d) + i])] \o kids
  ELSE [d EXCEPT ![t] = El(DocTag, <<Len(d) + 1>>)]
         \o <<El("p", [i \in 1..Len(kids) |-> Len(d) + 1 + i])>> \o kids

\* lines 101-107: every table is replaced by a parsed "<p>row<br/>row</p>"
RECURSIVE convert_tables(_, _)
convert_tables(d, ts) ==
  IF ts = <<>> THEN d
  ELSE convert_tables(replaced_table(d, Head(ts), br_joined(table_lines(d, Head(ts)))),
                      Tail(ts))

\* line 190: soup.body.find_all(recursive=False) if soup.body else
\* soup.find_all(recursive=False)
top_level(d) ==
  LET bodies == find_all(d, 1, {"body"})
      holder == IF bodies # <<>> THEN bodies[1] ELSE 1
  IN SelectSeq(d[holder].kids, LAMBDA m : d[m].tag # TextTag)

\* mutant of build_start: the path and the consumed nodes of the previous
\* call are kept
build_start_keeping(doc) ==
  LET d == convert_tables(doc, find_all(doc, 1, {"table"}))
  IN [dom |-> d, top |-> top_level(d), stack |-> <<>>, breadcrumb |-> breadcrumb,
      skipped_ids |-> skipped_ids, blocks |-> <<>>, block_src |-> <<>>]

\* lines 98-111 and 190: the state of the call when its loop starts
build_start(doc) ==
  LET d == convert_tables(doc, find_all(doc, 1, {"table"}))
  IN [dom |-> d, top |-> top_level(d), stack |-> <<>>, breadcrumb |-> <<>>,
      skipped_ids |-> {}, blocks |-> <<>>, block_src |-> <<>>]

Src(n, kind) == [node |-> n, kind |-> kind]

\* push_block, lines 113-117
push_block(x, text, n, kind) ==
  LET t == IF Contains(text, NL) THEN norm_multiline(text) ELSE norm_ws(text)
  IN IF t # <<>>
     THEN [x EXCEPT !.blocks = Append(@, Blk(x.breadcrumb, t)),
                    !.block_src = Append(@, Src(n, kind))]
     ELSE x

\* emit_list_blocks, lines 119-128: the blocks of a list and their items
RECURSIVE emit_list_blocks(_, _, _)
emit_list_blocks(d, ul, trail) ==
  LET lis == find_children(d, ul, {"li"})
  IN Flatten([i \in 1..Len(lis) |->
       LET li_text == item_text(d, lis[i])
           subs == find_children(d, lis[i], {"ul", "ol"})
       IN <<[blk |-> Blk(trail, <<"-", SP>> \o li_text), src |-> Src(lis[i], "li")]>>
          \o Flatten([j \in 1..Len(subs) |->
               emit_list_blocks(d, subs[j],
                                Append(trail, shorten_label(li_text, LabelLimit)))])])

\* mutant of consumed: the node is taken out of the tree but not put into
\* skipped_ids
consumed_unmarked(y, d, n, lns) ==
  [dom |-> extract(d, n), skipped_ids |-> y.skipped_ids, lines |-> lns,
   go |-> TRUE, at |-> n]

\* lines 153-155, 168-170 and 177-179: node n is consumed; go says that the
\* scan continues, at is the node the scan stands on
consumed(y, d, n, lns) ==
  [dom |-> extract(d, n), skipped_ids |-> y.skipped_ids \cup {n}, lines |-> lns,
   go |-> TRUE, at |-> n]

\* the breaks of lines 157, 163 and 185
stopped(y, d, n) ==
  [dom |-> d, skipped_ids |-> y.skipped_ids, lines |-> y.lines, go |-> FALSE, at |-> n]

\* lines 147-157: a bold heading; e is extract_plain_text of it
scan_heading(y, n, cb, e) ==
  IF cb # <<>> /\ norm_ws(strip_trailing_colon(e.text)) = norm_ws(cb[1])
  THEN consumed(y, e.dom, n, y.lines)
  ELSE stopped(y, e.dom, n)

\* lines 164-165
answer_line(txt) == IF is_answer_text(txt) THEN strip_q_or_a_prefix(txt) ELSE txt

\* lines 166-167
add_answer_line(lns, txt) == IF norm_ws(txt) # <<>> THEN Append(lns, txt) ELSE lns

\* lines 160-170: a paragraph; e is extract_plain_text of it
scan_p(y, n, e) ==
  IF is_question_text(e.text) THEN stopped(y, e.dom, n)
  ELSE consumed(y, e.dom, n, add_answer_line(y.lines, answer_line(e.text)))

\* lines 138-185: what the scan does with the sibling n; y holds the tree,
\* skipped_ids and the answer lines so far
scan_node(y, n, cb) ==
  IF y.dom[n].tag = TextTag \/ n \in y.skipped_ids THEN [y EXCEPT !.at = n]
  ELSE IF is_bold_heading_p(y.dom, n)
  THEN scan_heading(y, n, cb, extract_plain_text(y.dom, n))
  ELSE IF y.dom[n].tag = "p" THEN scan_p(y, n, extract_plain_text(y.dom, n))
  ELSE IF y.dom[n].tag \in {"ul", "ol"}
  THEN consumed(y, y.dom, n, y.lines \o list_to_lines(y.dom, n))
  ELSE stopped(y, y.dom, n)

\* lines 135-136: the loop "while node and node.next_sibling"
RECURSIVE answer_scan(_, _)
answer_scan(y, cb) ==
  IF ~y.go \/ next_sibling(y.dom, y.at) = 0 THEN y
  ELSE answer_scan(scan_node(y, next_sibling(y.dom, y.at), cb), cb)

\* line 187: what the call returns, with the tree and skipped_ids it leaves
answer_result(y) ==
  [dom |-> y.dom, skipped_ids |-> y.skipped_ids,
   answer_text |-> Strip(Join(y.lines, <<NL>>))]

\* collect_answer_content, lines 130-188
collect_answer_content(d, sk, start, cb) ==
  answer_result(answer_scan([dom |-> d, skipped_ids |-> sk, lines |-> <<>>,
                             go |-> TRUE, at |-> start], cb))

\* what the loop does with the state x: which branch of lines 190-225
StepKind(x) ==
  IF x.stack = <<>> THEN (IF x.top = <<>> THEN "return" ELSE "next_top")
  ELSE LET el == Head(x.stack)
       IN IF x.dom[el].tag = TextTag \/ el \in x.skipped_ids THEN "skip"
          ELSE IF is_bold_heading_p(x.dom, el) THEN "heading"
          ELSE IF x.dom[el].tag \in {"ul", "ol"} THEN "list"
          ELSE IF x.dom[el].tag = "p"
               THEN (IF is_question_text(extract_plain_text(x.dom, el).text)
                     THEN "question" ELSE "paragraph")
          ELSE "descend"

\* lines 190-191: the next top-level node starts a stack
visit_next_top(x) == [x EXCEPT !.stack = <<Head(x.top)>>, !.top = Tail(x.top)]

\* lines 194-197
visit_skip(x) == [x EXCEPT !.stack = Tail(@)]

\* mutant of visit_heading: the heading is pushed onto the path
visit_heading_nesting(x) ==
  LET e == extract_plain_text(x.dom, Head(x.stack))
  IN [x EXCEPT !.dom = e.dom,
               !.breadcrumb = Append(@, strip_trailing_colon(e.text)),
               !.stack = Tail(@)]

\* lines 199-203
visit_heading(x) ==
  LET e == extract_plain_text(x.dom, Head(x.stack))
  IN [x EXCEPT !.dom = e.dom,
               !.breadcrumb = <<strip_trailing_colon(e.text)>>,
               !.stack = Tail(@)]

\* lines 205-207
visit_list(x) ==
  LET bs == emit_list_blocks(x.dom, Head(x.stack), x.breadcrumb)
  IN [x EXCEPT !.blocks = @ \o [i \in 1..Len(bs) |-> bs[i].blk],
               !.block_src = @ \o [i \in 1..Len(bs) |-> bs[i].src],
               !.stack = Tail(@)]

\* lines 214-218: the block of a question and its answer
qa_text(q_text, answer_text) ==
  <<"Q", ":", SP>> \o q_text
    \o (IF answer_text # <<>> THEN <<NL, "A", ":", SP>> \o answer_text ELSE <<>>)

\* lines 212-219; a is what collect_answer_content returned
question_block(x, el, q_text, a) ==
  [push_block([x EXCEPT !.dom = a.dom, !.skipped_ids = a.skipped_ids, !.stack = Tail(@)],
              qa_text(q_text, a.answer_text), el, "qa")
     EXCEPT !.skipped_ids = @ \cup {el}]

\* lines 209-212; e is extract_plain_text of the paragraph el
question_from(x, el, e) ==
  question_block(x, el, strip_q_or_a_prefix(e.text),
                 collect_answer_content(e.dom, x.skipped_ids, el, x.breadcrumb))

\* lines 209-219
visit_question(x) ==
  question_from(x, Head(x.stack), extract_plain_text(x.dom, Head(x.stack)))

\* lines 209-210 and 221-223
visit_paragraph(x) ==
  LET el == Head(x.stack)
      e == extract_plain_text(x.dom, el)
      x1 == [x EXCEPT !.dom = e.dom, !.stack = Tail(@)]
  IN IF norm_ws(e.text) # <<>> THEN push_block(x1, e.text, el, "p") ELSE x1

\* line 225
visit_descend(x) == [x EXCEPT !.stack = x.dom[Head(x.stack)].kids \o Tail(@)]

\* lines 192-225: one iteration of the loop, whichever branch it takes
visit(x) ==
  CASE StepKind(x) = "next_top" -> visit_next_top(x)
    [] StepKind(x) = "skip" -> visit_skip(x)
    [] StepKind(x) = "heading" -> visit_heading(x)
    [] StepKind(x) = "list" -> visit_list(x)
    [] StepKind(x) = "question" -> visit_question(x)
    [] StepKind(x) = "paragraph" -> visit_paragraph(x)
    [] StepKind(x) = "descend" -> visit_descend(x)
    [] OTHER -> x

SetExt(x) ==
  /\ dom' = x.dom
  /\ top' = x.top
  /\ stack' = x.stack
  /\ breadcrumb' = x.breadcrumb
  /\ skipped_ids' = x.skipped_ids
  /\ blocks' = x.blocks
  /\ block_src' = x.block_src


(***************************************************************************)
(* Bounded inputs of process_files: an export directory of at most         *)
(* MaxFiles distinct files drawn from FileMenu.  A file is                 *)
(*   [name, doc, readable, meta, url]                                      *)
(* doc the tree html.parser builds from it, readable whether reading the   *)
(* HTML succeeds, meta the state of its sidecar <name>.meta.json: "none"   *)
(* (absent), "url" (holds "url"), "nourl" (holds none) or "bad" (not       *)
(* JSON).                                                                  *)
(***************************************************************************)
MaxFiles == 2

PipelineLimits == {64}

RunTags == {<<>>, <<"r", "1">>}

\* <p><strong>Leave</strong></p><p>Ten days.</p>
Doc_heading ==
  << El(DocTag, <<2, 5>>),
     El("p", <<3>>),
     El("strong", <<4>>),
     Txt(<<"L", "e", "a", "v", "e">>),
     El("p", <<6>>),
     Txt(<<"T", "e", "n", SP, "d", "a", "y", "s", ".">>) >>

\* <p>Q: How?</p>\n<p>A: Ten.</p><p>More.</p><ul><li>x</li></ul><p>q. Why?</p>
Doc_qa ==
  << El(DocTag, <<2, 4, 5, 7, 9, 12>>),
     El("p", <<3>>),
     Txt(<<"Q", ":", SP, "H", "o", "w", "?">>),
     Txt(<<NL>>),
     El("p", <<6>>),
     Txt(<<"A", ":", SP, "T", "e", "n", ".">>),
     El("p", <<8>>),
     Txt(<<"M", "o", "r", "e", ".">>),
     El("ul", <<10>>),
     El("li", <<11>>),
     Txt(<<"x">>),
     El("p", <<13>>),
     Txt(<<"q", ".", SP, "W", "h", "y", "?">>) >>

\* <html><body><div>Hello<p>in p</p></div><h1>Title</h1></body></html>
Doc_loose ==
  << El(DocTag, <<2>>),
     El("html", <<3>>),
     El("body", <<4, 8>>),
     El("div", <<5, 6>>),
     Txt(<<"H", "e", "l", "l", "o">>),
     El("p", <<7>>),
     Txt(<<"i", "n", SP, "p">>),
     El("h1", <<9>>),
     Txt(<<"T", "i", "t", "l", "e">>) >>

\* <p><strong>H0</strong></p><p><strong>H1</strong></p><p>one</p><p><strong>H2:</strong></p><div><p>two</p><p>Q: q?</p><p><strong>H2</strong></p><p>a1</p></div>
Doc_sections ==
  << El(DocTag, <<2, 5, 8, 10, 13>>),
     El("p", <<3>>),
     El("strong", <<4>>),
     Txt(<<"H", "0">>),
     El("p", <<6>>),
     El("strong", <<7>>),
     Txt(<<"H", "1">>),
     El("p", <<9>>),
     Txt(<<"o", "n", "e">>),
     El("p", <<11>>),
     El("strong", <<12>>),
     Txt(<<"H", "2", ":">>),
     El("div", <<14, 16, 18, 21>>),
     El("p", <<15>>),
     Txt(<<"t", "w", "o">>),
     El("p", <<17>>),
     Txt(<<"Q", ":", SP, "q", "?">>),
     El("p", <<19>>),
     El("strong", <<20>>),
     Txt(<<"H", "2">>),
     El("p", <<22>>),
     Txt(<<"a", "1">>) >>

\* <p><strong></strong></p><ul><li>Item1</li><li>Item2<ul><li>Sub1</li></ul></li></ul>
Doc_list ==
  << El(DocTag, <<2, 4>>),
     El("p", <<3>>),
     El("strong", <<>>),
     El("ul", <<5, 7>>),
     El("li", <<6>>),
     Txt(<<"I", "t", "e", "m", "1">>),
     El("li", <<8, 9>>),
     Txt(<<"I", "t", "e", "m", "2">>),
     El("ul", <<10>>),
     El("li", <<11>>),
     Txt(<<"S", "u", "b", "1">>) >>

\* <table><tr><td>A</td><td>B</td></tr><tr><td>C</td></tr></table><p>after</p>
Doc_table ==
  << El(DocTag, <<2, 11>>),
     El("table", <<3, 8>>),
     El("tr", <<4, 6>>),
     El("td", <<5>>),
     Txt(<<"A">>),
     El("td", <<7>>),
     Txt(<<"B">>),
     El("tr", <<9>>),
     El("td", <<10>>),
     Txt(<<"C">>),
     El("p", <<12>>),
     Txt(<<"a", "f", "t", "e", "r">>) >>

\* <p>See <a href="u">doc</a></p><p>Q: x?</p><p>Q: <a href="v">y</a> z</p>
Doc_link ==
  << El(DocTag, <<2, 6, 8>>),
     El("p", <<3, 4>>),
     Txt(<<"S", "e", "e", SP>>),
     Node("a", <<5>>, <<>>, <<"u">>),
     Txt(<<"d", "o", "c">>),
     El("p", <<7>>),
     Txt(<<"Q", ":", SP, "x", "?">>),
     El("p", <<9, 10, 12>>),
     Txt(<<"Q", ":", SP>>),
     Node("a", <<11>>, <<>>, <<"v">>),
     Txt(<<"y">>),
     Txt(<<SP, "z">>) >>

\* (an empty file)
Doc_empty ==
  << El(DocTag, <<>>) >>

\* <ul><li>Item<div><ul><li>Sub</li></ul></div></li></ul>
Doc_wrapped ==
  << El(DocTag, <<2>>),
     El("ul", <<3>>),
     El("li", <<4, 5>>),
     Txt(<<"I", "t", "e", "m">>),
     El("div", <<6>>),
     El("ul", <<7>>),
     El("li", <<8>>),
     Txt(<<"S", "u", "b">>) >>


\* <p>Q: a?</p><table><tr><td>T</td></tr></table><p>Q: b?</p><div><p>in</p></div><p>Q: c?</p><p>Q: d?</p>
Doc_stops ==
  << El(DocTag, <<2, 4, 8, 10, 13, 15>>),
     El("p", <<3>>),
     Txt(<<"Q", ":", SP, "a", "?">>),
     El("table", <<5>>),
     El("tr", <<6>>),
     El("td", <<7>>),
     Txt(<<"T">>),
     El("p", <<9>>),
     Txt(<<"Q", ":", SP, "b", "?">>),
     El("div", <<11>>),
     El("p", <<12>>),
     Txt(<<"i", "n">>),
     El("p", <<14>>),
     Txt(<<"Q", ":", SP, "c", "?">>),
     El("p", <<16>>),
     Txt(<<"Q", ":", SP, "d", "?">>) >>

S_version == <<BACKTICK, "v", "e", "r", "s", "i", "o", "n", ":", SP, "1", BACKTICK, NL>>
S_title == <<BACKTICK, "t", "i", "t", "l", "e", ":", SP>>
S_tags == <<BACKTICK, "t", "a", "g", "s", ":", SP, "[">>
S_close == <<BACKTICK, NL>>
S_tags_close == <<"]", BACKTICK, NL>>
S_policies == <<"p", "o", "l", "i", "c", "i", "e", "s">>
S_source_url == <<BACKTICK, "s", "o", "u", "r", "c", "e", "_", "u", "r", "l", ":", SP>>
S_url == <<"h", "t", "t", "p", ":", "/", "/", "x", "/", "p">>

File(name, doc, readable, meta) ==
  [name |-> name, doc |-> doc, readable |-> readable, meta |-> meta, url |-> S_url]

FileMenu ==
  { File(<<"h">>, Doc_heading, TRUE, "url"),
    File(<<"q">>, Doc_qa, TRUE, "none"),
    File(<<"o">>, Doc_loose, TRUE, "none"),
    File(<<"s">>, Doc_sections, TRUE, "none"),
    File(<<"l">>, Doc_list, TRUE, "none"),
    File(<<"t">>, Doc_table, TRUE, "none"),
    File(<<"k">>, Doc_link, TRUE, "none"),
    File(<<"e">>, Doc_empty, TRUE, "nourl"),
    File(<<"w">>, Doc_wrapped, TRUE, "none"),
    File(<<"p">>, Doc_stops, TRUE, "none"),
    File(<<"b">>, Doc_heading, TRUE, "bad"),
    File(<<"u">>, Doc_heading, FALSE, "none") }

FileSeqs ==
  {fs \in UNION {[1..n -> FileMenu] : n \in 0..MaxFiles} :
     \A i, j \in 1..Len(fs) : i # j => fs[i].name # fs[j].name}

(***************************************************************************)
(* process_files, src/ctxt_generator.py:302-333, as a state machine: per   *)
(* file, the sidecar is read, the HTML is read, build_blocks_from_html     *)
(* runs (one action per step of its loop), chunk_blocks runs (the actions  *)
(* above) and the CTXT file is written.  Nothing catches an exception: it  *)
(* ends process_files.                                                     *)
(***************************************************************************)
Init ==
  /\ files \in FileSeqs
  /\ limit \in PipelineLimits
  /\ RUN_TAG \in RunTags
  /\ fi = 1
  /\ url_line = <<>>
  /\ written = <<>>
  /\ pc = "file"
  /\ blocks = <<>>
  /\ chunks = <<>> /\ current_lines = <<>> /\ current_breadcrumb = <<>>
  /\ current_len = 0 /\ bi = 1 /\ chunk_path = <<>> /\ emitted = <<>>
  /\ dom = <<>> /\ top = <<>> /\ stack = <<>> /\ breadcrumb = <<>>
  /\ skipped_ids = {} /\ block_src = <<>>
  /\ CallIdle /\ MainIdle /\ WaitIdle /\ FolderIdle /\ RunIdle
  /\ unwraps \in BOOLEAN

\* lines 309-314: the sidecar is absent or is read
ReadMeta ==
  /\ pc = "file"
  /\ fi <= Len(files)
  /\ files[fi].meta # "bad"
  /\ url_line' = IF files[fi].meta = "url"
                 THEN S_source_url \o files[fi].url \o S_close
                 ELSE <<>>
  /\ pc' = "read"
  /\ UNCHANGED <<blocks, limit, chunk_vars, build_vars, files, fi, written, RUN_TAG, side_vars>>

\* line 312: json.load raises on a sidecar that is not JSON
ReadMetaRaises ==
  /\ pc = "file"
  /\ fi <= Len(files)
  /\ files[fi].meta = "bad"
  /\ pc' = "raised"
  /\ UNCHANGED <<blocks, limit, chunk_vars, build_vars, file_vars, side_vars>>

\* lines 316-317 raise when the HTML cannot be read
ReadHtmlRaises ==
  /\ pc = "read"
  /\ ~files[fi].readable
  /\ pc' = "raised"
  /\ UNCHANGED <<blocks, limit, chunk_vars, build_vars, file_vars, side_vars>>

\* lines 316-319 and 98-111: the HTML is read and parsed, its tables are
\* rewritten and the locals of build_blocks_from_html are set
BuildStart ==
  /\ pc = "read"
  /\ files[fi].readable
  /\ SetExt(build_start(files[fi].doc))
  /\ pc' = "extract"
  /\ UNCHANGED <<limit, chunk_vars, file_vars, side_vars>>

\* one iteration of the loop of lines 190-225, by the branch it takes
VisitNextTop ==
  /\ pc = "extract"
  /\ StepKind(Ext) = "next_top"
  /\ SetExt(visit_next_top(Ext))
  /\ UNCHANGED <<limit, pc, chunk_vars, file_vars, side_vars>>

VisitSkip ==
  /\ pc = "extract"
  /\ StepKind(Ext) = "skip"
  /\ SetExt(visit_skip(Ext))
  /\ UNCHANGED <<limit, pc, chunk_vars, file_vars, side_vars>>

VisitHeading ==
  /\ pc = "extract"
  /\ StepKind(Ext) = "heading"
  /\ SetExt(visit_heading(Ext))
  /\ UNCHANGED <<limit, pc, chunk_vars, file_vars, side_vars>>

VisitList ==
  /\ pc = "extract"
  /\ StepKind(Ext) = "list"
  /\ SetExt(visit_list(Ext))
  /\ UNCHANGED <<limit, pc, chunk_vars, file_vars, side_vars>>

VisitQuestion ==
  /\ pc = "extract"
  /\ StepKind(Ext) = "question"
  /\ SetExt(visit_question(Ext))
  /\ UNCHANGED <<limit, pc, chunk_vars, file_vars, side_vars>>

VisitParagraph ==
  /\ pc = "extract"
  /\ StepKind(Ext) = "paragraph"
  /\ SetExt(visit_paragraph(Ext))
  /\ UNCHANGED <<limit, pc, chunk_vars, file_vars, side_vars>>

VisitDescend ==
  /\ pc = "extract"
  /\ StepKind(Ext) = "descend"
  /\ SetExt(visit_descend(Ext))
  /\ UNCHANGED <<limit, pc, chunk_vars, file_vars, side_vars>>

\* lines 227 and 320: the blocks are returned and handed to chunk_blocks
BuildReturn ==
  /\ pc = "extract"
  /\ StepKind(Ext) = "return"
  /\ EnterChunkBlocks
  /\ pc' = "chunk"
  /\ UNCHANGED <<blocks, limit, build_vars, file_vars, side_vars>>

\* line 322
tags_value == S_policies \o (IF RUN_TAG # <<>> THEN <<",", SP>> \o RUN_TAG ELSE <<>>)

\* mutant of ctxt_text: a chunk is ended by its line break alone
ctxt_text_without_blank_line(base_name, cs) ==
  S_version \o S_title \o base_name \o S_close
    \o S_tags \o tags_value \o S_tags_close
    \o url_line \o <<NL>>
    \o Flatten([i \in 1..Len(cs) |-> Strip(cs[i]) \o <<NL>>])

\* lines 323-331: the text of the CTXT file
ctxt_text(base_name, cs) ==
  S_version \o S_title \o base_name \o S_close
    \o S_tags \o tags_value \o S_tags_close
    \o url_line \o <<NL>>
    \o Flatten([i \in 1..Len(cs) |-> Strip(cs[i]) \o <<NL, NL>>])

\* lines 322-333: the CTXT file is written and the loop goes on
WriteCtxt ==
  /\ pc = "chunked"
  /\ fi >= 1
  /\ written' = Append(written, [name |-> files[fi].name,
                                 text |-> ctxt_text(files[fi].name, chunks)])
  /\ fi' = fi + 1
  /\ pc' = "file"
  /\ UNCHANGED <<blocks, limit, chunk_vars, build_vars, files, url_line, RUN_TAG, side_vars>>

\* line 304: no file is left
Return ==
  /\ pc = "file"
  /\ fi > Len(files)
  /\ pc' = "done"
  /\ UNCHANGED <<blocks, limit, chunk_vars, build_vars, file_vars, side_vars>>

Next ==
  \/ ReadMeta \/ ReadMetaRaises \/ ReadHtmlRaises \/ BuildStart
  \/ VisitNextTop \/ VisitSkip \/ VisitHeading \/ VisitList
  \/ VisitQuestion \/ VisitParagraph \/ VisitDescend \/ BuildReturn
  \/ ChunkMultiLineBlock \/ ChunkSingleLineBlock \/ ChunkFlush
  \/ WriteCtxt \/ Return

Spec == Init /\ [][Next]_vars


(***************************************************************************)
(* Properties of build_blocks_from_html and process_files (checked under   *)
(* Spec).  They speak of the document as it was parsed: Parsed is the tree *)
(* of the file in hand before the traversal changed it.                    *)
(***************************************************************************)
Extracting == pc \in {"extract", "chunk", "chunked"}

Extracted == pc \in {"chunk", "chunked"}

Parsed == convert_tables(files[fi].doc, find_all(files[fi].doc, 1, {"table"}))

RECURSIVE Ancestors(_, _)
Ancestors(d, n) ==
  IF Parent(d, n) = 0 THEN {} ELSE {Parent(d, n)} \cup Ancestors(d, Parent(d, n))

InTree(d) == {Descendants(d, 1)[i] : i \in 1..Len(Descendants(d, 1))}

\* a is a run of consecutive elements of b
IsInfix(a, b) == \E i \in 0..(Len(b) - Len(a)) : SubSeq(b, i + 1, i + Len(a)) = a

ChunkLines(k) == Split(chunks[k], NL)

\* C5: every chunk built from blocks of a non-empty path starts with
\* exactly one header line "### <label> > <label> ..." for that path,
\* whatever non-empty path the extractor produced.
C5_HeaderOnEveryPathChunk ==
  \A k \in 1..Len(chunks) :
    chunk_path[k] # <<>> =>
      /\ StartsWith(FirstLine(k), <<"#", "#", "#", SP>>)
      /\ FirstLine(k) \in {HeaderLine(breadcrumb_header(chunk_path[k])),
                           RStrip(HeaderLine(breadcrumb_header(chunk_path[k])))}
      /\ \A j \in 2..Len(ChunkLines(k)) : ChunkLines(k)[j] # FirstLine(k)

\* the elements that follow q among the children of its parent
FollowingElements(d, q) ==
  LET ks == d[Parent(d, q)].kids
  IN SelectSeq(SubSeq(ks, (CHOOSE j \in 1..Len(ks) : ks[j] = q) + 1, Len(ks)),
               LAMBDA m : d[m].tag # TextTag)

\* an answer-marked or plain paragraph, or a list
Qualifying(d, n) ==
  \/ d[n].tag \in {"ul", "ol"}
  \/ /\ d[n].tag = "p"
     /\ ~is_bold_heading_p(d, n)
     /\ ~is_question_text(extract_plain_text(d, n).text)

\* the qualifying siblings that follow q, up to the first node that is none
QualifyingRun(d, q) ==
  LET fs == FollowingElements(d, q)
      ends == {j \in 1..Len(fs) : ~Qualifying(d, fs[j])}
  IN SubSeq(fs, 1, IF ends = {} THEN Len(fs) ELSE SetMin(ends) - 1)

\* the text of a qualifying sibling, as lines of an answer
SiblingLines(d, n) ==
  IF d[n].tag \in {"ul", "ol"} THEN list_to_lines(d, n)
  ELSE LET t == extract_plain_text(d, n).text
       IN <<IF is_answer_text(t) THEN strip_q_or_a_prefix(t) ELSE t>>

RunLines(d, run) == Flatten([j \in 1..Len(run) |-> SiblingLines(d, run[j])])

\* C6: a question paragraph followed by k >= 2 consecutive qualifying
\* siblings gives one Q/A block whose answer holds the text of all k
\* siblings in document order, and none of the k siblings (nor an item of
\* one of them) is a block of its own.
C6_AnswerFoldsAllSiblings ==
  Extracted =>
    \A i \in 1..Len(blocks) :
      (block_src[i].kind = "qa" /\ Len(QualifyingRun(Parsed, block_src[i].node)) >= 2)
        => LET run == QualifyingRun(Parsed, block_src[i].node)
           IN /\ IsInfix(Ink(Join(RunLines(Parsed, run), <<NL>>)), Ink(blocks[i].text))
              /\ \A j \in 1..Len(run) : \A m \in 1..Len(blocks) :
                   /\ block_src[m].node # run[j]
                   /\ ~InSeq(block_src[m].node, Descendants(Parsed, run[j]))

\* the strings of the document outside any p, list or table
LooseText(d) ==
  {n \in InTree(d) :
     /\ d[n].tag = TextTag
     /\ norm_ws(d[n].text) # <<>>
     /\ \A a \in Ancestors(d, n) : d[a].tag \notin {"p", "ul", "ol", "table"}}

\* C7: text that sits in structure the extractor does not recognize (a div,
\* span or h1, outside any p, list or table) is in the text of some block
\* that build_blocks_from_html returns.
C7_LooseTextKept ==
  Extracted =>
    \A n \in LooseText(files[fi].doc) :
      \E i \in 1..Len(blocks) : IsInfix(norm_ws(files[fi].doc[n].text), blocks[i].text)

\* a document whose conversion raises nothing
Convertible(f) == f.readable /\ f.meta # "bad"

\* C8: when process_files has ended, every document of the export directory
\* whose own conversion raises nothing has its CTXT file written, whatever
\* happened to the documents before and after it.
C8_ErrorIsLocal ==
  pc \in {"done", "raised"} =>
    \A i \in 1..Len(files) :
      Convertible(files[i]) => \E w \in 1..Len(written) : written[w].name = files[i].name

\* build_blocks_from_html run to its return from the state x
RECURSIVE RunToReturn(_)
RunToReturn(x) == IF StepKind(x) = "return" THEN x ELSE RunToReturn(visit(x))

\* the call for a document alone: it starts from an empty path and an empty
\* set of consumed nodes
Alone(doc) ==
  RunToReturn([dom |-> convert_tables(doc, find_all(doc, 1, {"table"})),
               top |-> top_level(convert_tables(doc, find_all(doc, 1, {"table"}))),
               stack |-> <<>>, breadcrumb |-> <<>>, skipped_ids |-> {},
               blocks |-> <<>>, block_src |-> <<>>])

\* C9: no extraction state leaks across documents.  The blocks returned
\* for a document, whatever was converted before it, are the blocks
\* returned for it alone, and each call starts with an empty path and an
\* empty set of consumed nodes.
C9_NoLeakAcrossDocuments ==
  /\ [](Extracted => blocks = Alone(files[fi].doc).blocks)
  /\ [][(pc = "read" /\ pc' = "extract") => (breadcrumb' = <<>> /\ skipped_ids' = {})]_vars

\* C9 witness: the second document of a run has been extracted after a
\* first one that left a path and consumed nodes behind.
C9_Witness ==
  /\ Extracted
  /\ fi = 2
  /\ Len(written) = 1
  /\ blocks # <<>>
  /\ Alone(files[1].doc).breadcrumb # <<>>
  /\ Alone(files[1].doc).skipped_ids # {}
  /\ Alone(files[2].doc).breadcrumb # Alone(files[1].doc).breadcrumb

\* the nodes the traversal visits: those below no paragraph and no list
Traversed(d, n) == \A a \in Ancestors(d, n) : d[a].tag \notin {"p", "ul", "ol"}

\* the heading paragraphs the traversal meets before node n, as places in
\* the document order ord of d
HeadingsBefore(d, ord, n) ==
  {i \in 1..((CHOOSE j \in 1..Len(ord) : ord[j] = n) - 1) :
     is_bold_heading_p(d, ord[i]) /\ Traversed(d, ord[i])}

\* the text of the last of them
LastHeadingText(d, ord, n) ==
  extract_plain_text(d, ord[SetMax(HeadingsBefore(d, ord, n))]).text

\* the path of the claim: the most recent heading without its trailing colon
HeadingPath(d, ord, n) ==
  IF HeadingsBefore(d, ord, n) = {} THEN <<>>
  ELSE <<strip_trailing_colon(LastHeadingText(d, ord, n))>>

\* C10: headings do not nest.  Every block of a plain paragraph or a Q/A
\* pair has a path of length at most 1: the text of the most recent heading
\* paragraph met by the traversal, its trailing colon stripped, or the
\* empty path when no heading precedes it.
C10_HeadingsDoNotNest ==
  Extracting =>
    LET d == Parsed
        ord == Descendants(d, 1)
    IN \A i \in 1..Len(blocks) :
         block_src[i].kind \in {"p", "qa"} =>
           /\ Len(blocks[i].path) <= 1
           /\ blocks[i].path = HeadingPath(d, ord, block_src[i].node)

\* C10 witness: a Q/A block after three headings, the first with no content
\* of its own, the last with a trailing colon that the path does not have.
C10_Witness ==
  /\ Extracted
  /\ LET d == Parsed
         ord == Descendants(d, 1)
     IN \E i \in 1..Len(blocks) :
          /\ block_src[i].kind = "qa"
          /\ Cardinality(HeadingsBefore(d, ord, block_src[i].node)) >= 3
          /\ Len(blocks[i].path) = 1
          /\ blocks[i].path # <<LastHeadingText(d, ord, block_src[i].node)>>


\* the items of the list l, nested ones included, in document order
ItemsOf(d, l) == SelectSeq(Descendants(d, l), LAMBDA m : d[m].tag = "li")

\* the items of l that hold the item li, outermost first
ItemAncestors(d, l, li) ==
  SelectSeq(ItemsOf(d, l), LAMBDA a : InSeq(li, Descendants(d, a)))

\* the block of the claim for the item li of the list l met under path P
ItemBlock(d, l, li, P) ==
  Blk(P \o [j \in 1..Len(ItemAncestors(d, l, li)) |->
              shorten_label(item_text(d, ItemAncestors(d, l, li)[j]), LabelLimit)],
      <<"-", SP>> \o item_text(d, li))

\* the lists the traversal meets itself: below no paragraph and no list,
\* and not folded into an answer
ListsMet(d) ==
  {l \in InTree(d) : d[l].tag \in {"ul", "ol"} /\ Traversed(d, l) /\ l \notin skipped_ids}

\* the blocks that come from the items of `items`, in the order of blocks
BlocksOfItems(items) ==
  LET got == SelectSeq([i \in 1..Len(blocks) |-> i],
                       LAMBDA i : block_src[i].kind = "li" /\ InSeq(block_src[i].node, items))
  IN [i \in 1..Len(got) |-> blocks[got[i]]]

\* C11: for a list met by the traversal under path P, every item at
\* nesting depth d gives exactly one block "- <item text>" whose path is P
\* extended by the shortened labels of its d ancestor items, and the blocks
\* come in the pre-order document order of the items.
C11_OneBlockPerListItem ==
  Extracted =>
    LET d == Parsed
        ord == Descendants(d, 1)
    IN \A l \in ListsMet(d) :
         BlocksOfItems(ItemsOf(d, l))
           = [j \in 1..Len(ItemsOf(d, l)) |->
                ItemBlock(d, l, ItemsOf(d, l)[j], HeadingPath(d, ord, l))]


\* the tables of the document the traversal reaches
TablesMet(doc) == {t \in InTree(doc) : doc[t].tag = "table" /\ Traversed(doc, t)}

\* the blocks that come from what took the place of the table t
BlocksOfTable(d, t) ==
  {i \in 1..Len(blocks) : InSeq(block_src[i].node, Descendants(d, t))}

\* C12: a table with r >= 1 non-empty rows gives exactly one block, whose
\* text is r lines separated by line breaks, line i being the cell texts of
\* row i joined by " | ".
C12_TableRowsAsLines ==
  Extracted =>
    LET d == Parsed
    IN \A t \in TablesMet(files[fi].doc) :
         table_lines(files[fi].doc, t) # <<>> =>
           /\ Cardinality(BlocksOfTable(d, t)) = 1
           /\ \A i \in BlocksOfTable(d, t) :
                blocks[i].text = Join(table_lines(files[fi].doc, t), <<NL>>)


(***************************************************************************)
(* The text helpers called on their own: norm_ws (lines 18-19),            *)
(* norm_multiline (lines 21-37) and shorten_label (lines 60-68), on every  *)
(* string of at most MaxStr characters of HelperAlphabet and, for          *)
(* shorten_label, every limit of HelperLimits.                             *)
(***************************************************************************)
MaxStr == 5

HelperAlphabet == {"a", ",", SP, NL, "\r"}

HelperLimits == {1, 2, 3}

HelperStrings == UNION {[1..n -> HelperAlphabet] : n \in 0..MaxStr}

\* no document is being converted
NoConversion ==
  /\ blocks = <<>> /\ limit = 0
  /\ chunks = <<>> /\ current_lines = <<>> /\ current_breadcrumb = <<>>
  /\ current_len = 0 /\ bi = 1 /\ chunk_path = <<>> /\ emitted = <<>>
  /\ files = <<>> /\ fi = 0 /\ url_line = <<>> /\ written = <<>> /\ RUN_TAG = <<>>
  /\ dom = <<>> /\ top = <<>> /\ stack = <<>> /\ breadcrumb = <<>>
  /\ skipped_ids = {} /\ block_src = <<>>

InitHelpers ==
  /\ pc = "helper"
  /\ called = "none"
  /\ arg \in HelperStrings
  /\ arg_limit = 0
  /\ result = <<>>
  /\ NoConversion
  /\ MainIdle
  /\ ExtIdle

\* the helper fn is called with arg (and the limit lim, 0 when it takes
\* none) and returns r
Returns(fn, lim, r) ==
  /\ pc = "helper"
  /\ called = "none"
  /\ called' = fn
  /\ arg_limit' = lim
  /\ result' = r
  /\ UNCHANGED <<blocks, limit, pc, chunk_vars, build_vars, file_vars, arg, main_vars,
                 ext_vars>>

\* lines 18-19
CallNormWs == Returns("norm_ws", 0, norm_ws(arg))

\* lines 21-37
CallNormMultiline == Returns("norm_multiline", 0, norm_multiline(arg))

\* lines 60-68
CallShortenLabel ==
  \E lim \in HelperLimits : Returns("shorten_label", lim, shorten_label(arg, lim))

NextHelpers == CallNormWs \/ CallNormMultiline \/ CallShortenLabel

SpecHelpers == InitHelpers /\ [][NextHelpers]_vars

\* C13: for every string s and every limit >= 1, shorten_label(s, limit)
\* returns a label of at most limit characters, the ellipsis marker
\* included.
C13_LabelWithinLimit ==
  called = "shorten_label" => Len(result) <= arg_limit


NoWsAtEnds(s) == s = <<>> \/ (~IsWs(s[1]) /\ ~IsWs(s[Len(s)]))

NoWsRun(s) == \A i \in 1..(Len(s) - 1) : ~(IsWs(s[i]) /\ IsWs(s[i + 1]))

\* C16: norm_ws is idempotent, and its result has no leading or trailing
\* whitespace and no run of two whitespace characters.
C16_NormWsIdempotent ==
  called = "norm_ws" =>
    /\ norm_ws(result) = result
    /\ NoWsAtEnds(result)
    /\ NoWsRun(result)

\* C16 witness: norm_ws was given a string with whitespace at an end and a
\* run of whitespace inside, and returned two words.
C16_Witness ==
  /\ called = "norm_ws"
  /\ ~NoWsAtEnds(arg)
  /\ ~NoWsRun(RStrip(LStrip(arg)))
  /\ Len(Words(result)) = 2

\* the lines of s: what its line breaks (\r\n, \r, \n) separate
LinesOf(s) == Split(UnifyNewlines(s), NL)

NonBlank(lns) == SelectSeq(lns, LAMBDA ln : norm_ws(ln) # <<>>)

\* C17: norm_multiline(s) keeps the order of the non-blank lines of s, has
\* every line whitespace-normalized, never has two consecutive blank lines
\* and has no leading or trailing blank line.
C17_NormMultilineShape ==
  called = "norm_multiline" =>
    LET out == Split(result, NL)
        kept == NonBlank(LinesOf(arg))
    IN /\ NonBlank(out) = [i \in 1..Len(kept) |-> norm_ws(kept[i])]
       /\ \A i \in 1..Len(out) : norm_ws(out[i]) = out[i]
       /\ \A i \in 1..(Len(out) - 1) : ~(out[i] = <<>> /\ out[i + 1] = <<>>)
       /\ result # <<>> => (out[1] # <<>> /\ out[Len(out)] # <<>>)

\* C17 witness: norm_multiline was given two non-blank lines with two blank
\* lines between them and returned them with one blank line between.
C17_Witness ==
  /\ called = "norm_multiline"
  /\ Len(NonBlank(LinesOf(arg))) = 2
  /\ Len(LinesOf(arg)) >= 4
  /\ Len(Split(result, NL)) = 3


(***************************************************************************)
(* Main.main, src/Main.py:57-88, from the start of the process to the end  *)
(* of CTXT generation.  The module ctxt_generator is imported when Main is *)
(* loaded (src/Main.py:15), and its constant RUN_TAG is set then           *)
(* (src/ctxt_generator.py:15); main runs afterwards.                       *)
(***************************************************************************)
\* what _make_run_tag builds from the clock, src/Main.py:40
S_run_tag == <<"r", "u", "n", "-", "2", "6">>

PresetTags == {<<>>, <<"r", "1">>}

InitMain ==
  /\ pc = "import"
  /\ environ_RUN_TAG \in PresetTags
  /\ preset_RUN_TAG = environ_RUN_TAG
  /\ skip_generate \in BOOLEAN
  /\ main_RUN_TAG = <<>>
  /\ files \in FileSeqs
  /\ limit \in PipelineLimits
  /\ RUN_TAG = <<>>
  /\ fi = 1 /\ url_line = <<>> /\ written = <<>>
  /\ blocks = <<>>
  /\ chunks = <<>> /\ current_lines = <<>> /\ current_breadcrumb = <<>>
  /\ current_len = 0 /\ bi = 1 /\ chunk_path = <<>> /\ emitted = <<>>
  /\ dom = <<>> /\ top = <<>> /\ stack = <<>> /\ breadcrumb = <<>>
  /\ skipped_ids = {} /\ block_src = <<>>
  /\ CallIdle
  /\ WaitIdle /\ FolderIdle /\ RunIdle
  /\ unwraps \in BOOLEAN

\* src/Main.py:15 and src/ctxt_generator.py:15: the import of ctxt_generator
\* sets its RUN_TAG from the environment
ImportCtxtGenerator ==
  /\ pc = "import"
  /\ RUN_TAG' = Strip(environ_RUN_TAG)
  /\ pc' = "main"
  /\ UNCHANGED <<blocks, limit, chunk_vars, build_vars, files, fi, url_line, written,
                 call_vars, main_vars, ext_vars>>

\* src/Main.py:70-73: step 0 of main
MainRunTag ==
  /\ pc = "main"
  /\ environ_RUN_TAG' = IF environ_RUN_TAG = <<>> THEN S_run_tag ELSE environ_RUN_TAG
  /\ main_RUN_TAG' = environ_RUN_TAG'
  /\ pc' = "generate"
  /\ UNCHANGED <<blocks, limit, chunk_vars, build_vars, file_vars, call_vars,
                 preset_RUN_TAG, skip_generate, ext_vars>>

\* src/Main.py:84-85
MainSkipGenerate ==
  /\ pc = "generate"
  /\ skip_generate
  /\ pc' = "done"
  /\ UNCHANGED <<blocks, limit, chunk_vars, build_vars, file_vars, side_vars>>

\* src/Main.py:86-88: process_files is called
MainProcessFiles ==
  /\ pc = "generate"
  /\ ~skip_generate
  /\ pc' = "file"
  /\ UNCHANGED <<blocks, limit, chunk_vars, build_vars, file_vars, side_vars>>

NextMain == ImportCtxtGenerator \/ MainRunTag \/ MainSkipGenerate \/ MainProcessFiles \/ Next

SpecMain == InitMain /\ [][NextMain]_vars

\* the tags header of a CTXT file whose run-scoped tag is tag
TagsLine(tag) == S_tags \o S_policies \o <<",", SP>> \o tag \o S_tags_close

\* C14: when main runs without a preset RUN_TAG and CTXT generation is not
\* skipped, the run tag main establishes in step 0 is, after the base tag
\* "policies", in the tags header of every CTXT file process_files writes
\* during the run.
C14_RunTagInEveryCtxt ==
  (preset_RUN_TAG = <<>> /\ main_RUN_TAG # <<>> /\ ~skip_generate) =>
    \A w \in 1..Len(written) : IsInfix(TagsLine(main_RUN_TAG), written[w].text)


\* where the first blank line of s starts (the first of two line breaks in a
\* row), 0 when s has none
FirstBlank(s) ==
  IF \E i \in 1..(Len(s) - 1) : s[i] = NL /\ s[i + 1] = NL
  THEN SetMin({i \in 1..(Len(s) - 1) : s[i] = NL /\ s[i + 1] = NL})
  ELSE 0

\* s.split("\n\n")
RECURSIVE SplitOnBlank(_)
SplitOnBlank(s) ==
  IF FirstBlank(s) = 0 THEN <<s>>
  ELSE <<SubSeq(s, 1, FirstBlank(s) - 1)>>
         \o SplitOnBlank(SubSeq(s, FirstBlank(s) + 2, Len(s)))

\* the body of a CTXT file: what follows the blank line that ends its header
BodyOf(text) == SubSeq(text, FirstBlank(text) + 2, Len(text))

\* the last CTXT file was written from the chunks still in hand
LastWritten == Len(written) > 0 /\ pc \notin {"chunk", "chunked"}

\* C15: in the body of a CTXT file the chunks are separated by exactly one
\* blank line: no chunk is empty, none holds a blank line, and splitting
\* the body on blank lines gives back the chunks chunk_blocks returned, in
\* order (each followed by its separator, so an empty piece ends the list).
C15_ChunksSplitBack ==
  LastWritten =>
    /\ \A k \in 1..Len(chunks) : chunks[k] # <<>> /\ FirstBlank(chunks[k]) = 0
    /\ SplitOnBlank(BodyOf(written[Len(written)].text)) = Append(chunks, <<>>)

\* C15 witness: a CTXT file was written from two chunks or more, one of
\* them of several lines.
C15_Witness ==
  /\ LastWritten
  /\ Len(chunks) >= 2
  /\ \E k \in 1..Len(chunks) : Contains(chunks[k], NL)

(***************************************************************************)
(* wait_for_ingestion_by_tag, src/cognigy/ingestion_verify.py:73-127.  A   *)
(* source of the knowledge store is a record [name, tags, status,          *)
(* chunkCount], as _get_detail returns it; a poll is one turn of the       *)
(* "while True" loop, and the clock counts poll intervals.                 *)
(***************************************************************************)
MaxSources == 2
MaxTimeout == 3

\* the tag argument of the call
WaitTag == "run-26"

Source(name, tags, status, chunkCount) ==
  [name |-> name, tags |-> tags, status |-> status, chunkCount |-> chunkCount]

SourceMenu ==
  { Source("a.ctxt", {"policies", WaitTag}, "ready", 0),
    Source("b.ctxt", {"policies", WaitTag}, "processing", 3),
    Source("c.ctxt", {"policies", WaitTag}, "processing", 0),
    Source("d.ctxt", {"policies"}, "ready", 5) }

\* what client.list_sources() can yield in one poll
Listings == UNION {[1..k -> SourceMenu] : k \in 0..MaxSources}

\* TIMEOUT, line 24, and what one poll's requests take, in poll intervals
Timeouts == 0..MaxTimeout
PollTimes == {0, 1}

\* INTERVAL, line 25
INTERVAL == 1

\* lines 29-33
_has_tag(src, tag) == tag \in src.tags

\* lines 35-41
_label(src) == src.name

\* lines 49-59
_is_ingested(src) ==
  \/ src.status \in {"ready", "completed", "complete", "done"}
  \/ src.chunkCount > 0

Labels(srcs) == [i \in 1..Len(srcs) |-> _label(srcs[i])]

\* line 107: the one placeholder that stands for shortfall missing sources
GapMarker(shortfall) ==
  <<"(awaiting creation) +1", "(awaiting creation) +2", "(awaiting creation) +3",
    "(awaiting creation) +4">>[shortfall]

\* a success criterion that looks at the pending sources only
success_without_count(tg, pending, expected) == pending = <<>>

\* line 119
success(tg, pending, expected) == Len(tg) >= expected /\ pending = <<>>

\* lines 93-107: what one poll computes from the listing lst
poll(lst, expected) ==
  LET tg == SelectSeq(lst, LAMBDA s : _has_tag(s, WaitTag))
      shortfall == Max(0, expected - Len(tg))
  IN [tagged         |-> tg,
      ready_labels   |-> Labels(SelectSeq(tg, _is_ingested)),
      pending_labels |-> Labels(SelectSeq(tg, LAMBDA s : ~_is_ingested(s))),
      gap_markers    |-> IF shortfall # 0 THEN <<GapMarker(shortfall)>> ELSE <<>>]

Returned(ready, pending) == <<[ready |-> ready, pending |-> pending]>>

\* lines 87-88: the call, with the deadline set
InitWait ==
  /\ pc = "poll"
  /\ expected_count \in 0..MaxSources
  /\ now = 0
  /\ deadline \in {now + t : t \in Timeouts}
  /\ listed = <<>> /\ tagged = <<>> /\ ready_labels = <<>> /\ pending_labels = <<>>
  /\ gap_markers = <<>> /\ returned = <<>> /\ polls = 0
  /\ NoConversion
  /\ CallIdle
  /\ MainIdle
  /\ FolderIdle
  /\ LibIdle
  /\ RunIdle

\* the outcome of one poll p that ends at time t: lines 119-125
PollEnds(p, t) ==
  /\ tagged' = p.tagged
  /\ ready_labels' = p.ready_labels
  /\ pending_labels' = p.pending_labels
  /\ gap_markers' = p.gap_markers
  /\ now' = t
  /\ IF success(p.tagged, p.pending_labels, expected_count)
     THEN returned' = Returned(p.ready_labels, <<>>) /\ pc' = "returned"
     ELSE IF t >= deadline
          THEN /\ returned' = Returned(p.ready_labels, p.pending_labels \o p.gap_markers)
               /\ pc' = "returned"
          ELSE returned' = returned /\ pc' = "sleep"

\* lines 91-125: one turn of the loop up to its return or its sleep
WaitPoll ==
  /\ pc = "poll"
  /\ \E lst \in Listings, dt \in PollTimes :
       /\ listed' = lst
       /\ PollEnds(poll(lst, expected_count), now + dt)
  /\ polls' = polls + 1
  /\ UNCHANGED <<blocks, limit, chunk_vars, build_vars, file_vars, call_vars, main_vars,
                 expected_count, deadline, folder_vars, lib_vars, run_vars>>

\* line 127
WaitSleep ==
  /\ pc = "sleep"
  /\ now' = now + INTERVAL
  /\ pc' = "poll"
  /\ UNCHANGED <<blocks, limit, chunk_vars, build_vars, file_vars, call_vars, main_vars,
                 expected_count, deadline, listed, tagged, ready_labels, pending_labels,
                 gap_markers, returned, polls, folder_vars, lib_vars,
                 run_vars>>

NextWait == WaitPoll \/ WaitSleep

SpecWait == InitWait /\ [][NextWait]_vars

\* the listed sources that carry the tag
Carrying == {i \in 1..Len(listed) : WaitTag \in listed[i].tags}

\* in the poll just made, at least expected_count sources carry the tag and
\* each of them is ingested
CriteriaMet ==
  /\ Cardinality(Carrying) >= expected_count
  /\ \A i \in Carrying : _is_ingested(listed[i])

\* C18: wait_for_ingestion_by_tag returns an empty pending list only when the
\* poll it returns from saw at least expected_count sources with the tag, all
\* of them ingested; a poll that did not see that is followed by the sleep
\* and another poll while the clock is before the deadline, and returns a
\* non-empty pending list once the clock has reached the deadline.
C18_EmptyPendingOnlyOnSuccess ==
  /\ [](returned # <<>> =>
          /\ returned[1].pending = <<>> => CriteriaMet
          /\ ~CriteriaMet => now >= deadline /\ returned[1].pending # <<>>)
  /\ [][/\ pc = "poll" /\ ~CriteriaMet' /\ now' < deadline
             => pc' = "sleep" /\ returned' = <<>>
        /\ pc = "poll" /\ ~CriteriaMet' /\ now' >= deadline
             => pc' = "returned" /\ returned' # <<>> /\ returned'[1].pending # <<>>
        /\ pc = "sleep" => pc' = "poll" /\ polls' = polls]_vars

\* a call that returned an empty pending list from its third poll or later,
\* with two sources expected
C18_Witness ==
  /\ returned # <<>> /\ returned[1].pending = <<>>
  /\ polls >= 3 /\ expected_count = 2

\* a call that gave up at the deadline with one source still being ingested
\* and one not created yet
C18_TimedOut ==
  /\ returned # <<>> /\ Len(returned[1].pending) = 2
  /\ polls >= 2 /\ now >= deadline

(***************************************************************************)
(* _create_run_folder, src/sharepoint_uploader.py:236-269.  The name       *)
(* "base" is 0 and the name "base-k" is k; an item under the parent is a   *)
(* record [name, folder, id], folder telling a folder from a file.         *)
(***************************************************************************)
\* the last suffix tried, 100 at line 264
MaxSuffix == 3

Names == 0..MaxSuffix

Item(name, folder, id) == [name |-> name, folder |-> folder, id |-> id]

\* the items there can be under the parent when the run starts: a name is
\* free, taken by a folder or taken by a file
ChildrenSets ==
  {{Item(k, kind[k] = "folder", "old") : k \in {j \in Names : kind[j] # "free"}} :
     kind \in [Names -> {"free", "folder", "file"}]}

\* line 265
candidate(k) == k

RunFolder(name, item_id) == <<[name |-> name, item_id |-> item_id]>>

\* lines 246-248: the item the existence check finds
Found(cs, name) == {it \in cs : it.name = name /\ it.folder}

\* lines 257-260: the status codes the POST can answer with
PostStatus(cs, name) ==
  IF \E it \in cs : it.name = name THEN {409} ELSE {201, 403}

InitFolder ==
  /\ pc = "try"
  /\ children \in ChildrenSets
  /\ existing = children
  /\ DRY_RUN \in BOOLEAN
  /\ try_n = 0
  /\ run_folder = <<>>
  /\ NoConversion
  /\ CallIdle
  /\ MainIdle
  /\ WaitIdle
  /\ LibIdle
  /\ RunIdle

\* lines 246-248 and 267-268: the candidate names a folder that is there
TryCreateFound ==
  /\ pc = "try" /\ try_n <= MaxSuffix
  /\ \E it \in Found(children, candidate(try_n)) :
       run_folder' = RunFolder(candidate(try_n), it.id)
  /\ pc' = "returned"
  /\ UNCHANGED <<blocks, limit, chunk_vars, build_vars, file_vars, call_vars, main_vars,
                 wait_vars, children, existing, DRY_RUN, try_n, lib_vars,
                 run_vars>>

\* lines 250-253 and 267-268
TryCreateDryRun ==
  /\ pc = "try" /\ try_n <= MaxSuffix
  /\ Found(children, candidate(try_n)) = {}
  /\ DRY_RUN
  /\ run_folder' = RunFolder(candidate(try_n), "dry-run-id")
  /\ pc' = "returned"
  /\ UNCHANGED <<blocks, limit, chunk_vars, build_vars, file_vars, call_vars, main_vars,
                 wait_vars, children, existing, DRY_RUN, try_n, lib_vars,
                 run_vars>>

\* lines 255-260 and 264-268: the POST, and the next turn of the loop when it
\* is refused
TryCreatePost ==
  /\ pc = "try" /\ try_n <= MaxSuffix
  /\ Found(children, candidate(try_n)) = {}
  /\ ~DRY_RUN
  /\ \E status \in PostStatus(children, candidate(try_n)) :
       IF status \in {200, 201}
       THEN /\ children' = children \cup {Item(candidate(try_n), TRUE, "new")}
            /\ run_folder' = RunFolder(candidate(try_n), "new")
            /\ pc' = "returned"
            /\ try_n' = try_n
       ELSE /\ try_n' = try_n + 1
            /\ UNCHANGED <<children, run_folder, pc>>
  /\ UNCHANGED <<blocks, limit, chunk_vars, build_vars, file_vars, call_vars, main_vars,
                 wait_vars, existing, DRY_RUN, lib_vars, run_vars>>

\* line 269
CreateRaises ==
  /\ pc = "try" /\ try_n > MaxSuffix
  /\ pc' = "raised"
  /\ UNCHANGED <<blocks, limit, chunk_vars, build_vars, file_vars, side_vars>>

NextFolder == TryCreateFound \/ TryCreateDryRun \/ TryCreatePost \/ CreateRaises

SpecFolder == InitFolder /\ [][NextFolder]_vars

\* a folder with the base name was there when _create_run_folder was called
BaseTaken == \E it \in existing : it.name = 0 /\ it.folder

\* the first suffix k >= 1 that named no item when the call was made
FirstFree == SetMin({k \in 1..(MaxSuffix + 1) : \A it \in existing : it.name # k})

\* C19: when a folder with the base name is already there, the folder that
\* _create_run_folder returns is named base-k for the first free suffix k and
\* is none of the folders that were there before the call.
C19_CollisionIsSuffixed ==
  (pc = "returned" /\ run_folder # <<>> /\ BaseTaken) =>
    /\ run_folder[1].name = FirstFree
    /\ \A it \in existing : it.id # run_folder[1].item_id

(***************************************************************************)
(* The chunk break before a Q/A block (checked under SpecChunk).           *)
(***************************************************************************)
\* the chunk that holds the last line of block i
LastChunkOf(i) == EmittedOf(i)[Len(EmittedOf(i))].chunk

\* what chunk k held once block i was added: its header, and one separator
\* for each of its lines
UsedAfter(k, i) ==
  LET es == SelectSeq(emitted, LAMBDA e : e.chunk = k /\ e.blk <= i)
  IN FreshLen(chunk_path[k]) + SumLen([j \in 1..Len(es) |-> es[j].line]) + Len(es)

\* the first line of a multi-line text, as line 272 takes it
FirstLineOf(text) == RStrip(Split(text, NL)[1])

\* block i is a Q/A block that follows a block of its path, that neither the
\* chunk in progress nor a fresh chunk can hold, and whose first line the
\* chunk in progress can hold
Oversized(i) ==
  /\ is_qa_block(blocks[i].text)
  /\ blocks[i - 1].path = blocks[i].path
  /\ UsedAfter(LastChunkOf(i - 1), i - 1) + Len(blocks[i].text) + 1 > limit
  /\ FreshLen(blocks[i].path) + Len(blocks[i].text) + 1 > limit
  /\ UsedAfter(LastChunkOf(i - 1), i - 1) + Len(FirstLineOf(blocks[i].text)) + 1 <= limit

\* C20: a Q/A block that overflows the chunk in progress and that a fresh
\* chunk under its path cannot hold either does not close the chunk in
\* progress: its first line, which that chunk can hold, is added to it.
C20_NoBreakWhenFreshChunkCannotHold ==
  pc = "chunked" =>
    \A i \in 2..Len(blocks) :
      Oversized(i) => EmittedOf(i)[1].chunk = LastChunkOf(i - 1)

(***************************************************************************)
(* Header-only chunks and the running length (checked under SpecChunk).    *)
(***************************************************************************)
\* the lines of chunk k that were taken from a block
ContentLines(k) == SelectSeq(emitted, LAMBDA e : e.chunk = k)

\* C21: every chunk that chunk_blocks returns holds at least one line taken
\* from a block, and so is more than its header line.
C21_NoHeaderOnlyChunk ==
  pc = "chunked" =>
    \A k \in 1..Len(chunks) :
      /\ ContentLines(k) # <<>>
      /\ HasHeader(k) => chunks[k] # HeaderLine(breadcrumb_header(chunk_path[k]))

\* what the lines buffered cost: their lengths and one separator each
Buffered(lns) == SumLen(lns) + Len(lns)

\* the content lines that were in the buffer once line n was added: those of
\* the same chunk up to n
BufferedUpTo(n) ==
  LET es == SelectSeq(SubSeq(emitted, 1, n), LAMBDA e : e.chunk = emitted[n].chunk)
  IN [j \in 1..Len(es) |-> es[j].line]

\* line n was added right after add_line broke the chunk for size under an
\* unchanged breadcrumb that has a header: the line before it is of the same
\* block and of the chunk before
AfterOverflowBreak(n) ==
  /\ n >= 2
  /\ emitted[n].blk = emitted[n - 1].blk
  /\ emitted[n].chunk = emitted[n - 1].chunk + 1
  /\ breadcrumb_header(blocks[emitted[n].blk].path) # <<>>

\* C22: after every block current_len is the sum of (length + 1) over the
\* lines of current_lines, and after every line added it is that sum over
\* the header line of the line's own chunk and the content lines added to
\* that chunk so far; right after a chunk break for size the header counted
\* is the one of the new chunk.
C22_LenCountsBufferedLines ==
  /\ current_len = Buffered(current_lines)
  /\ \A n \in 1..Len(emitted) :
       emitted[n].len
         = FreshLen(blocks[emitted[n].blk].path) + Buffered(BufferedUpTo(n))

\* C22 witness: a line was added right after a chunk break for size under a
\* path with a header, and the chunk in progress holds that header
C22_Witness ==
  /\ pc = "chunk"
  /\ current_lines # <<>>
  /\ \E n \in 1..Len(emitted) : AfterOverflowBreak(n)

(***************************************************************************)
(* The end of the answer scan (checked under Spec).                        *)
(***************************************************************************)
\* in the document as it was read, f is a table, a question paragraph or an
\* element that is no paragraph and no list
Terminator(doc, f) ==
  \/ doc[f].tag \notin {"p", "ul", "ol", TextTag}
  \/ /\ doc[f].tag = "p"
     /\ ~is_bold_heading_p(doc, f)
     /\ is_question_text(extract_plain_text(doc, f).text)

\* f and the nodes below it
Subtree(d, f) == {f} \cup {Descendants(d, f)[i] : i \in 1..Len(Descendants(d, f))}

\* there is a paragraph with text or a list item in the subtree of f
HasContent(d, f) ==
  \E m \in Subtree(d, f) :
    \/ d[m].tag = "li"
    \/ /\ d[m].tag = "p"
       /\ ~is_bold_heading_p(d, m)
       /\ norm_ws(extract_plain_text(d, m).text) # <<>>

\* the blocks that come from the subtree of f
BlocksFrom(d, f) == {i \in 1..Len(blocks) : block_src[i].node \in Subtree(d, f)}

\* the question q, whose block is block i, is followed by the terminator f:
\* its block is the question alone and f gives blocks of its own
StopsAt(doc, d, i, q, f) ==
  Terminator(doc, f) =>
    /\ blocks[i].text
         = norm_ws(<<"Q", ":", SP>> \o strip_q_or_a_prefix(extract_plain_text(d, q).text))
    /\ HasContent(d, f) => BlocksFrom(d, f) \ {i} # {}

\* C23: when the first element after a question paragraph is a table,
\* another question paragraph or an element that is neither paragraph nor
\* list, the answer scan ends there without consuming it: the question's
\* block is "Q: <question>" alone and the element gives its own block(s).
C23_TerminatorIsNotConsumed ==
  Extracted =>
    LET d == Parsed
    IN \A i \in 1..Len(blocks) :
         (block_src[i].kind = "qa" /\ FollowingElements(d, block_src[i].node) # <<>>)
           => StopsAt(files[fi].doc, d, i, block_src[i].node,
                      FollowingElements(d, block_src[i].node)[1])

\* the text of the bold heading h, its trailing colon stripped
HeadingText(d, h) == strip_trailing_colon(extract_plain_text(d, h).text)

\* the heading text ht continues the section of the path cb
Continues(ht, cb) == cb # <<>> /\ norm_ws(ht) = norm_ws(cb[1])

\* the question of block i is followed by the bold heading h that repeats the
\* label of its section: the qualifying siblings after h are in its answer
ScanGoesOn(d, i, h) ==
  LET run == QualifyingRun(d, h)
  IN /\ \A m \in 1..Len(blocks) : block_src[m].node # h
     /\ run # <<>> =>
          IsInfix(Ink(Join(RunLines(d, run), <<NL>>)), Ink(blocks[i].text))

\* the question of block i is followed by a bold heading h of another text
\* ht: its block is the question alone, and the blocks of the siblings after
\* h are under the path that starts with ht
ScanEnds(d, i, q, h, ht) ==
  /\ blocks[i].text
       = norm_ws(<<"Q", ":", SP>> \o strip_q_or_a_prefix(extract_plain_text(d, q).text))
  /\ \A m \in 1..Len(blocks) :
       (FollowingElements(d, h) # <<>>
          /\ block_src[m].node \in Subtree(d, FollowingElements(d, h)[1]))
         => blocks[m].path # <<>> /\ blocks[m].path[1] = ht

HeadingAfterQuestion(d, i, q, h) ==
  is_bold_heading_p(d, h) =>
    IF Continues(HeadingText(d, h), blocks[i].path)
    THEN ScanGoesOn(d, i, h)
    ELSE ScanEnds(d, i, q, h, HeadingText(d, h))

\* C24: a bold heading met by the answer scan is consumed only when its text
\* (trailing colon stripped) is the first label of the current path, and the
\* scan then goes on with the siblings after it; a heading of another text,
\* or any heading under an empty path, ends the scan, is not consumed and
\* becomes the path of the blocks that follow.
C24_HeadingInAnswerScan ==
  Extracted =>
    LET d == Parsed
    IN \A i \in 1..Len(blocks) :
         (block_src[i].kind = "qa" /\ FollowingElements(d, block_src[i].node) # <<>>)
           => HeadingAfterQuestion(d, i, block_src[i].node,
                                   FollowingElements(d, block_src[i].node)[1])

(***************************************************************************)
(* No text twice (checked under Spec).                                     *)
(***************************************************************************)
\* the text that the paragraph or list item m gives a block, without the
\* "Q:" or "A:" marker of a paragraph
PieceText(d, m) ==
  IF d[m].tag = "li" THEN item_text(d, m)
  ELSE LET t == extract_plain_text(d, m).text
       IN IF is_question_text(t) \/ is_answer_text(t) THEN strip_q_or_a_prefix(t) ELSE t

\* the paragraphs (bold headings apart) and list items of the document
Pieces(d) ==
  {m \in InTree(d) : d[m].tag = "li" \/ (d[m].tag = "p" /\ ~is_bold_heading_p(d, m))}

\* where t occurs in the texts of the blocks: block and position
OccurrencesOf(t) ==
  {ik \in UNION {{<<i, k>> : k \in 1..Len(blocks[i].text)} : i \in 1..Len(blocks)} :
     /\ ik[2] + Len(t) - 1 <= Len(blocks[ik[1]].text)
     /\ SubSeq(blocks[ik[1]].text, ik[2], ik[2] + Len(t) - 1) = t}

\* the siblings that an answer scan consumed: skipped, and no question
Consumed == skipped_ids \ {block_src[i].node : i \in 1..Len(block_src)}

\* C25: no node is emitted twice: no two blocks come from the same node, no
\* block comes from a sibling that an answer scan consumed, and the text of
\* every paragraph and list item is in the block texts at most once.
C25_NoNodeEmittedTwice ==
  Extracted =>
    LET d == Parsed
    IN /\ \A i, j \in 1..Len(blocks) : block_src[i].node = block_src[j].node => i = j
       /\ \A i \in 1..Len(blocks) : \A c \in Consumed : block_src[i].node \notin Subtree(d, c)
       /\ \A m \in Pieces(d) :
            PieceText(d, m) # <<>> => Cardinality(OccurrencesOf(PieceText(d, m))) <= 1

\* C25 witness: a document whose answer scans consumed a paragraph and a
\* list, and that gave a block for a question and a block for a paragraph
C25_Witness ==
  /\ Extracted
  /\ \E c \in Consumed : Parsed[c].tag = "p"
  /\ \E i \in 1..Len(blocks) : block_src[i].kind = "qa" /\ HasNLA(blocks[i].text)
  /\ \E i \in 1..Len(blocks) : block_src[i].kind = "p"

(***************************************************************************)
(* Wrapped list items (checked under SpecChunk).                           *)
(***************************************************************************)
Bullet == <<"-", SP>>

\* current_len when the loop comes to line 284 for the single-line block i:
\* what a fresh chunk costs when the path changes, else what it was after
\* the last line of the block before
LenBefore(i) ==
  IF i = 1 \/ blocks[i - 1].path # blocks[i].path
  THEN FreshLen(blocks[i].path)
  ELSE EmittedOf(i - 1)[Len(EmittedOf(i - 1))].len

SingleLine(i) == ~Contains(blocks[i].text, NL)

Fits(i) == Len(blocks[i].text) + LenBefore(i) <= limit

\* C26: every segment emitted for a single-line block "- ..." that did not
\* fit, the first and each continuation, begins with "- ", and a
\* single-line block that fits is emitted unchanged as one line.
C26_BulletOnEverySegment ==
  pc = "chunked" =>
    \A i \in 1..Len(blocks) :
      SingleLine(i) =>
        /\ (StartsWith(blocks[i].text, Bullet) /\ ~Fits(i))
             => \A j \in 1..Len(EmittedOf(i)) : StartsWith(EmittedOf(i)[j].line, Bullet)
        /\ Fits(i)
             => /\ Len(EmittedOf(i)) = 1
                /\ EmittedOf(i)[1].line = blocks[i].text

\* C26 witness: a list item was wrapped into several segments, one of which
\* got the bullet put before it, and another single-line block fitted
C26_Witness ==
  /\ pc = "chunked"
  /\ \E i \in 1..Len(blocks) :
       /\ SingleLine(i) /\ StartsWith(blocks[i].text, Bullet) /\ ~Fits(i)
       /\ Len(EmittedOf(i)) >= 2
       /\ \E j \in 1..Len(EmittedOf(i)) : EmittedOf(i)[j].pre
  /\ \E i \in 1..Len(blocks) : SingleLine(i) /\ Fits(i)

(***************************************************************************)
(* Where shorten_label cuts (checked under SpecHelpers).                   *)
(***************************************************************************)
\* the positions i of s, within its first lim characters, of a punctuation
\* character that a space follows
Boundaries(s, lim) ==
  {i \in 1..(Min(lim, Len(s)) - 1) : IsCutPunct(s[i]) /\ IsWs(s[i + 1])}

\* s cut at the boundary b, the punctuation character kept or dropped, and
\* the ellipsis marker
CutAt(s, b) ==
  { norm_ws(SubSeq(s, 1, b)) \o <<ELLIPSIS>>,
    norm_ws(SubSeq(s, 1, b - 1)) \o <<ELLIPSIS>> }

HardCut(s, lim) == RStrip(SubSeq(s, 1, lim)) \o <<ELLIPSIS>>

\* the label s, longer than lim, shortened to r
CutsAtLastBoundary(s, lim, r) ==
  IF Boundaries(s, lim) # {}
  THEN r \in CutAt(s, SetMax(Boundaries(s, lim)))
  ELSE r = HardCut(s, lim)

\* C27: a normalized label longer than limit is cut at the last punctuation
\* character followed by a space within its first limit characters, when
\* there is one, and at limit otherwise, and gets the ellipsis marker.
C27_CutsAtPunctuation ==
  (called = "shorten_label" /\ Len(norm_ws(arg)) > arg_limit)
    => CutsAtLastBoundary(norm_ws(arg), arg_limit, result)

(***************************************************************************)
(* Link rewriting (checked under Spec).                                    *)
(***************************************************************************)
\* the hyperlinks of the document d below the node m
LinksBelow(d, m) == {a \in Subtree(d, m) : d[a].tag = "a"}

\* where t occurs in the text of block i
OccurrencesIn(i, t) ==
  {k \in 1..(Len(blocks[i].text) - Len(t) + 1) :
     SubSeq(blocks[i].text, k, k + Len(t) - 1) = t}

\* the first line of the block of the paragraph whose text is txt
FirstLineFor(kind, txt) ==
  IF kind = "qa" THEN norm_ws(<<"Q", ":", SP>> \o strip_q_or_a_prefix(txt)) ELSE txt

\* block i comes from the paragraph m, whose first extraction is e: a second
\* extraction gives the same text, that text is what the block starts with,
\* and every link of m is in the block once, as "<link text> (<href>)"
LinkOnce(d, i, m, e) ==
  /\ extract_plain_text(e.dom, m).text = e.text
  /\ StartsWith(blocks[i].text, FirstLineFor(block_src[i].kind, e.text))
  /\ \A a \in LinksBelow(d, m) : Cardinality(OccurrencesIn(i, link_text(d, a))) = 1

\* C28: a hyperlink is rewritten once: extracting the text of a paragraph a
\* second time gives the text of the first extraction, and each link of a
\* paragraph is in the text of its block exactly once, as
\* "<link text> (<href>)", also when the answer scan of the question before
\* had extracted the paragraph already.
C28_LinkRewrittenOnce ==
  Extracted =>
    LET d == Parsed
    IN \A i \in 1..Len(blocks) :
         block_src[i].kind \in {"p", "qa"}
           => LinkOnce(d, i, block_src[i].node,
                       extract_plain_text(d, block_src[i].node))

\* C28 witness: a question paragraph with a link that ended the answer scan
\* of the question before it and then gave its own block
C28_Witness ==
  /\ Extracted
  /\ \E i, j \in 1..Len(blocks) :
       /\ block_src[i].kind = "qa" /\ block_src[j].kind = "qa"
       /\ LinksBelow(Parsed, block_src[j].node) # {}
       /\ FollowingElements(Parsed, block_src[i].node) # <<>>
       /\ FollowingElements(Parsed, block_src[i].node)[1] = block_src[j].node

(***************************************************************************)
(* The labels of a path (checked under Spec).                              *)
(***************************************************************************)
\* C29: every label of the path of every block that build_blocks_from_html
\* returns is a non-empty string, and not white space only.
C29_NoEmptyLabel ==
  Extracted =>
    \A i \in 1..Len(blocks) :
      \A k \in 1..Len(blocks[i].path) : norm_ws(blocks[i].path[k]) # <<>>

(***************************************************************************)
(* The end of a run: steps 6 to 9 of Main.main, src/Main.py:125-181, and   *)
(* the guard of the script, lines 184-198.  The wait of step 6 is the      *)
(* waiter above, polling between its call and its return.                  *)
(***************************************************************************)
InitRun ==
  /\ pc = "step6"
  /\ SKIP_WAIT \in BOOLEAN
  /\ SKIP_VERIFY \in BOOLEAN
  /\ SKIP_EMAIL \in BOOLEAN
  /\ uploaded_count \in 0..MaxSources
  /\ calls = <<>>
  /\ WaitIdle
  /\ NoConversion
  /\ CallIdle
  /\ MainIdle
  /\ FolderIdle
  /\ LibIdle

\* lines 126-128
RunWaitSkipped ==
  /\ pc = "step6"
  /\ SKIP_WAIT
  /\ pc' = "step7"
  /\ UNCHANGED <<blocks, limit, chunk_vars, build_vars, file_vars, side_vars>>

\* lines 129-134 and 87-88: wait_for_ingestion_by_tag is called
RunWaitCall ==
  /\ pc = "step6"
  /\ ~SKIP_WAIT
  /\ expected_count' = uploaded_count
  /\ deadline' \in {now + t : t \in Timeouts}
  /\ pc' = "poll"
  /\ UNCHANGED <<blocks, limit, chunk_vars, build_vars, file_vars, call_vars, main_vars,
                 now, listed, tagged, ready_labels, pending_labels, gap_markers, returned,
                 polls, folder_vars, lib_vars, run_vars>>

\* a step 7 that is entered whatever the wait returned
after_wait_ignoring_pending(pending) == "step7"

\* lines 135-140: where main goes with the pending list that the wait returned
after_wait(pending) == IF pending # <<>> THEN "except" ELSE "step7"

\* lines 134-140: the wait has returned; RuntimeError is raised on pending
\* sources and caught at line 187
RunWaitReturned ==
  /\ pc = "returned"
  /\ pc' = after_wait(returned[1].pending)
  /\ UNCHANGED <<blocks, limit, chunk_vars, build_vars, file_vars, side_vars>>

\* lines 143-148: the verify step, skipped or made; verify_against_local
\* returns its report or raises
RunVerify ==
  /\ pc = "step7"
  /\ calls' = IF SKIP_VERIFY THEN calls ELSE Append(calls, "verify_against_local")
  /\ \E raises \in {r \in BOOLEAN : r => ~SKIP_VERIFY} :
       pc' = IF raises THEN "except" ELSE "step8"
  /\ UNCHANGED <<blocks, limit, chunk_vars, build_vars, file_vars, call_vars, main_vars,
                 wait_vars, folder_vars, lib_vars, SKIP_WAIT, SKIP_VERIFY, SKIP_EMAIL,
                 uploaded_count>>

\* lines 150-181: the summary and the success mail; notify_success returns
\* or raises
RunSummary ==
  /\ pc = "step8"
  /\ calls' = Append(calls, "summary")
               \o (IF SKIP_EMAIL THEN <<>> ELSE <<"notify_success">>)
  /\ \E raises \in {r \in BOOLEAN : r => ~SKIP_EMAIL} :
       pc' = IF raises THEN "except" ELSE "exit"
  /\ UNCHANGED <<blocks, limit, chunk_vars, build_vars, file_vars, call_vars, main_vars,
                 wait_vars, folder_vars, lib_vars, SKIP_WAIT, SKIP_VERIFY, SKIP_EMAIL,
                 uploaded_count>>

\* lines 187-198: the guard around main: the failure mail is attempted
\* unless mail is skipped, and the exception is raised again
RunExcept ==
  /\ pc = "except"
  /\ calls' = IF SKIP_EMAIL THEN calls ELSE Append(calls, "notify_failure")
  /\ pc' = "reraised"
  /\ UNCHANGED <<blocks, limit, chunk_vars, build_vars, file_vars, call_vars, main_vars,
                 wait_vars, folder_vars, lib_vars, SKIP_WAIT, SKIP_VERIFY, SKIP_EMAIL,
                 uploaded_count>>

NextRun ==
  \/ RunWaitSkipped \/ RunWaitCall \/ WaitPoll \/ WaitSleep \/ RunWaitReturned
  \/ RunVerify \/ RunSummary \/ RunExcept

SpecRun == InitRun /\ [][NextRun]_vars

Called(name) == \E k \in 1..Len(calls) : calls[k] = name

\* the wait of this run was made and returned pending sources
PendingReturned == ~SKIP_WAIT /\ returned # <<>> /\ returned[1].pending # <<>>

\* C30: when the ingestion wait of a run returned pending sources, the verify
\* step, the summary and notify_success are never reached: the run goes from
\* the wait to the guard of the script, which attempts notify_failure unless
\* mail is skipped and then raises the error again.
C30_NoSuccessMailOnPending ==
  /\ [](PendingReturned =>
          /\ ~Called("notify_success") /\ ~Called("verify_against_local")
          /\ ~Called("summary")
          /\ pc \in {"returned", "except", "reraised"}
          /\ pc = "reraised" => (calls = IF SKIP_EMAIL THEN <<>> ELSE <<"notify_failure">>))
  /\ [][(PendingReturned /\ pc = "returned") => pc' = "except"]_vars
  /\ [][(PendingReturned /\ pc = "except") => pc' = "reraised"]_vars

\* C30 witness: a run whose wait timed out after several polls has attempted
\* the failure mail and raised the error again
C30_Witness ==
  /\ PendingReturned /\ polls >= 2
  /\ pc = "reraised" /\ calls = <<"notify_failure">>
====
